---- MODULE Spec2Model ----
(***************************************************************************)
(* View-model core of mdiff: the gap filter and display row mapper         *)
(* (src/display_map.rs), the split/unified line builders and the           *)
(* synchronized wrapper (src/components/diff_view.rs), and the             *)
(* line-anchored annotation store (src/state/annotation_state.rs).         *)
(*                                                                         *)
(* Rust indices are 0-based and are kept 0-based here: element i of a Vec  *)
(* v is v[i + 1].  Option<T> is a sequence of length 0 (None) or 1 (Some). *)
(* A Rust `let x = e;` whose value is large is written                    *)
(* CHOOSE r \in {body : x \in {e}} : TRUE, which evaluates e once and      *)
(* binds x to its value in body.                                           *)
(***************************************************************************)
EXTENDS Integers, Sequences, FiniteSets, TLC

VARIABLES delta, view_mode, display_context, gap_expansions,
          pane_width, viewport_height, scroll_offset, cursor_row,
          annotations, frame, selection, comment_editor_open,
          session_file, text_buffer,
          generation, loading, deltas, worker, navigator, review

(* the session file on disk, the comment editor's text buffer, and the     *)
(* state around the background diff worker                                 *)
app_vars == <<session_file, text_buffer,
              generation, loading, deltas, worker, navigator, review>>

vars == <<delta, view_mode, display_context, gap_expansions,
          pane_width, viewport_height, scroll_offset, cursor_row,
          annotations, frame, selection, comment_editor_open, app_vars>>

----------------------------------------------------------------------------
(* Bounds of the explored input space.                                     *)

MaxLines == 3

MaxCtx == 3

MaxGapKey == 2

MaxExtra == 2

MaxHeight == 3

MaxLineNo == 3

MaxAnnotations == 1

MaxClock == 3

(* characters a text buffer holds at most *)
MaxText == 3

(* diff requests sent to one worker at most *)
MaxGeneration == 3

----------------------------------------------------------------------------
(* Option<T>, usize helpers.                                               *)

None == <<>>

Some(x) == <<x>>

IsSome(o) == o # <<>>

Unwrap(o) == o[1]

Max(a, b) == IF a >= b THEN a ELSE b

Min(a, b) == IF a <= b THEN a ELSE b

SaturatingSub(a, b) == IF a >= b THEN a - b ELSE 0

RECURSIVE Flatten(_)
Flatten(ss) == IF ss = <<>> THEN <<>> ELSE Head(ss) \o Flatten(Tail(ss))

RECURSIVE Repeat(_, _)
Repeat(x, n) == IF n <= 0 THEN <<>> ELSE <<x>> \o Repeat(x, n - 1)

RECURSIVE SumSeq(_)
SumSeq(s) == IF s = <<>> THEN 0 ELSE Head(s) + SumSeq(Tail(s))

(* gap_expansions.get(&k).copied().unwrap_or(0) *)
GetOr0(m, k) == IF k \in DOMAIN m THEN m[k] ELSE 0

----------------------------------------------------------------------------
(* Gap filter: src/display_map.rs, filter_hunk_lines.                      *)

LineItem(lines, idx) ==
    [kind |-> "Line", line |-> lines[idx + 1], hunk_line_index |-> idx]

CollapsedIndicator(hidden, gid, dir) ==
    [kind |-> "CollapsedIndicator", hidden_count |-> hidden,
     gap_id |-> gid, direction |-> dir]

(* lines[a..b] pushed as FilteredItem::Line with their hunk indices *)
LineItems(lines, a, b) == [k \in 1..(b - a) |-> LineItem(lines, a + k - 1)]

(* inner while loop: first index >= i that is not a Context line *)
RECURSIVE RunEnd(_, _)
RunEnd(lines, i) ==
    IF i < Len(lines) /\ lines[i + 1].origin = "Context"
    THEN RunEnd(lines, i + 1)
    ELSE i

(* Mutant of FullyShown: strict comparison. *)
FullyShownStrict(total_show, total) == total_show > total

(* if total_show >= total: the run is shown whole *)
FullyShown(total_show, total) == total_show >= total

(* Mutant of Hidden: off by one. *)
HiddenOffByOne(total, total_show) == total - total_show + 1

(* let hidden = total - total_show *)
Hidden(total, total_show) == total - total_show

(* Mutant of TwoSidedRun: the bottom side grows with the top id's amount. *)
TwoSidedRunSharedExpansion(lines, run_start, run_end, dc, ge, gap_id) ==
    LET total == run_end - run_start
        show_top == dc + GetOr0(ge, gap_id)
        show_bottom == dc + GetOr0(ge, gap_id)
        total_show == show_top + show_bottom
    IN  [items |->
           IF total_show >= total
           THEN LineItems(lines, run_start, run_end)
           ELSE LineItems(lines, run_start, run_start + show_top)
                \o <<CollapsedIndicator(total - total_show, gap_id, "Down"),
                     CollapsedIndicator(total - total_show, gap_id + 1, "Up")>>
                \o LineItems(lines, run_end - show_bottom, run_end),
         gap_id |-> gap_id + 2]

(* Between two changes: two indicators with independent expansion. *)
TwoSidedRun(lines, run_start, run_end, dc, ge, gap_id) ==
    LET total == run_end - run_start
        top_gap_id == gap_id
        bottom_gap_id == gap_id + 1
        show_top == dc + GetOr0(ge, top_gap_id)
        show_bottom == dc + GetOr0(ge, bottom_gap_id)
        total_show == show_top + show_bottom
        hidden == Hidden(total, total_show)
    IN  [items |->
           IF FullyShown(total_show, total)
           THEN LineItems(lines, run_start, run_end)
           ELSE LineItems(lines, run_start, run_start + show_top)
                \o <<CollapsedIndicator(hidden, top_gap_id, "Down"),
                     CollapsedIndicator(hidden, bottom_gap_id, "Up")>>
                \o LineItems(lines, run_end - show_bottom, run_end),
         gap_id |-> gap_id + 2]

(* Mutant of OneSidedRun: the counter advances only when an indicator is   *)
(* emitted.                                                                *)
OneSidedRunLazyId(lines, run_start, run_end, dc, ge, gap_id) ==
    LET total == run_end - run_start
        has_change_before == run_start > 0
        has_change_after == run_end < Len(lines)
        show_after_prev == IF has_change_before THEN dc ELSE 0
        show_before_next == IF has_change_after THEN dc ELSE 0
        extra == GetOr0(ge, gap_id)
        show_top == IF ~has_change_before
                    THEN show_after_prev
                    ELSE show_after_prev + extra
        show_bottom == IF ~has_change_before
                       THEN show_before_next + extra
                       ELSE show_before_next
        total_show == show_top + show_bottom
        direction == IF ~has_change_before THEN "Up" ELSE "Down"
    IN  IF total_show >= total
        THEN [items |-> LineItems(lines, run_start, run_end),
              gap_id |-> gap_id]
        ELSE [items |-> LineItems(lines, run_start, run_start + show_top)
                        \o <<CollapsedIndicator(total - total_show, gap_id,
                                                direction)>>
                        \o LineItems(lines, run_end - show_bottom, run_end),
              gap_id |-> gap_id + 1]

(* Mutant of OneSidedRun: the expansion always grows the top side. *)
OneSidedRunGrowTop(lines, run_start, run_end, dc, ge, gap_id) ==
    LET total == run_end - run_start
        has_change_before == run_start > 0
        has_change_after == run_end < Len(lines)
        show_top == (IF has_change_before THEN dc ELSE 0) + GetOr0(ge, gap_id)
        show_bottom == IF has_change_after THEN dc ELSE 0
        total_show == show_top + show_bottom
        direction == IF ~has_change_before THEN "Up" ELSE "Down"
    IN  [items |->
           IF total_show >= total
           THEN LineItems(lines, run_start, run_end)
           ELSE LineItems(lines, run_start, run_start + show_top)
                \o <<CollapsedIndicator(total - total_show, gap_id,
                                        direction)>>
                \o LineItems(lines, run_end - show_bottom, run_end),
         gap_id |-> gap_id + 1]

(* Single-sided gap: above a change (opens the hunk) or below one. *)
OneSidedRun(lines, run_start, run_end, dc, ge, gap_id) ==
    LET total == run_end - run_start
        has_change_before == run_start > 0
        has_change_after == run_end < Len(lines)
        show_after_prev == IF has_change_before THEN dc ELSE 0
        show_before_next == IF has_change_after THEN dc ELSE 0
        extra == GetOr0(ge, gap_id)
        show_top == IF ~has_change_before
                    THEN show_after_prev
                    ELSE show_after_prev + extra
        show_bottom == IF ~has_change_before
                       THEN show_before_next + extra
                       ELSE show_before_next
        total_show == show_top + show_bottom
        hidden == Hidden(total, total_show)
        direction == IF ~has_change_before THEN "Up" ELSE "Down"
    IN  [items |->
           IF FullyShown(total_show, total)
           THEN LineItems(lines, run_start, run_end)
           ELSE LineItems(lines, run_start, run_start + show_top)
                \o <<CollapsedIndicator(hidden, gap_id, direction)>>
                \o LineItems(lines, run_end - show_bottom, run_end),
         gap_id |-> gap_id + 1]

(* One iteration of the outer loop on a context run [run_start, run_end):  *)
(* the items pushed and the value of gap_id afterwards.                    *)
FilterRun(lines, run_start, run_end, dc, ge, gap_id) ==
    LET total == run_end - run_start
        has_change_before == run_start > 0
        has_change_after == run_end < Len(lines)
        show_after_prev == IF has_change_before THEN dc ELSE 0
        show_before_next == IF has_change_after THEN dc ELSE 0
        baseline_total == show_after_prev + show_before_next
    IN  IF baseline_total >= total
        THEN [items |-> LineItems(lines, run_start, run_end),
              gap_id |-> gap_id]
        ELSE IF has_change_before /\ has_change_after
        THEN TwoSidedRun(lines, run_start, run_end, dc, ge, gap_id)
        ELSE OneSidedRun(lines, run_start, run_end, dc, ge, gap_id)

(* The outer while loop from index i with counter gap_id: one record per   *)
(* iteration (a non-context line, or a whole context run).                 *)
RECURSIVE FilterLoop(_, _, _, _, _)
FilterLoop(lines, i, dc, ge, gap_id) ==
    IF i >= Len(lines) THEN <<>>
    ELSE IF lines[i + 1].origin # "Context"
    THEN <<[is_run |-> FALSE, run_start |-> i, run_end |-> i + 1,
            gap_id_in |-> gap_id, items |-> <<LineItem(lines, i)>>,
            gap_id |-> gap_id]>>
         \o FilterLoop(lines, i + 1, dc, ge, gap_id)
    ELSE LET run_end == RunEnd(lines, i)
             r == FilterRun(lines, i, run_end, dc, ge, gap_id)
         IN  <<[is_run |-> TRUE, run_start |-> i, run_end |-> run_end,
                gap_id_in |-> gap_id, items |-> r.items,
                gap_id |-> r.gap_id]>>
             \o FilterLoop(lines, run_end, dc, ge, r.gap_id)

(* Returns (filtered_items, next_gap_id_offset). *)
filter_hunk_lines(lines, dc, ge, gap_id_offset) ==
    LET segs == FilterLoop(lines, 0, dc, ge, gap_id_offset)
    IN  [items |-> Flatten([k \in 1..Len(segs) |-> segs[k].items]),
         gap_id |-> IF segs = <<>> THEN gap_id_offset
                    ELSE segs[Len(segs)].gap_id]

----------------------------------------------------------------------------
(* Display row mapper: src/display_map.rs.                                 *)

HeaderRow(hunk_idx) ==
    [hunk_index |-> hunk_idx, line_index |-> None, old_lineno |-> None,
     new_lineno |-> None, origin |-> None, is_header |-> TRUE,
     is_collapsed_indicator |-> FALSE, gap_id |-> None, hidden_count |-> 0]

IndicatorRow(hunk_idx, item) ==
    [hunk_index |-> hunk_idx, line_index |-> None, old_lineno |-> None,
     new_lineno |-> None, origin |-> None, is_header |-> FALSE,
     is_collapsed_indicator |-> TRUE, gap_id |-> Some(item.gap_id),
     hidden_count |-> item.hidden_count]

ContentRow(hunk_idx, line_idx, old, new, origin) ==
    [hunk_index |-> hunk_idx, line_index |-> line_idx, old_lineno |-> old,
     new_lineno |-> new, origin |-> origin, is_header |-> FALSE,
     is_collapsed_indicator |-> FALSE, gap_id |-> None, hidden_count |-> 0]

(* while i < items.len() && items[i] is a Line of the given origin: i += 1 *)
RECURSIVE SkipOrigin(_, _, _)
SkipOrigin(items, i, origin) ==
    IF i < Len(items) /\ items[i + 1].kind = "Line"
       /\ items[i + 1].line.origin = origin
    THEN SkipOrigin(items, i + 1, origin)
    ELSE i

(* items[a..b] with the non-Line items filtered out *)
LinesOf(items, a, b) ==
    SelectSeq(SubSeq(items, a + 1, b), LAMBDA it : it.kind = "Line")

(* Rows of one deletion/addition block: for j in 0..max *)
PairRow(hunk_idx, dels, adds, j) ==
    IF j < Len(dels) /\ j < Len(adds)
    THEN ContentRow(hunk_idx, Some(dels[j + 1].hunk_line_index),
                    dels[j + 1].line.old_lineno, adds[j + 1].line.new_lineno,
                    Some("Deletion"))
    ELSE IF j < Len(dels)
    THEN ContentRow(hunk_idx, Some(dels[j + 1].hunk_line_index),
                    dels[j + 1].line.old_lineno, None, Some("Deletion"))
    ELSE ContentRow(hunk_idx, Some(adds[j + 1].hunk_line_index),
                    None, adds[j + 1].line.new_lineno, Some("Addition"))

(* Mutant of PairRows: deletions and additions are not paired. *)
PairRowsUnpaired(hunk_idx, dels, adds) ==
    [j \in 1..Len(dels) |->
        ContentRow(hunk_idx, Some(dels[j].hunk_line_index),
                   dels[j].line.old_lineno, None, Some("Deletion"))]
    \o [j \in 1..Len(adds) |->
          ContentRow(hunk_idx, Some(adds[j].hunk_line_index), None,
                     adds[j].line.new_lineno, Some("Addition"))]

(* let max = dels.len().max(adds.len()); for j in 0..max { rows.push } *)
PairRows(hunk_idx, dels, adds) ==
    [j \in 1..Max(Len(dels), Len(adds)) |-> PairRow(hunk_idx, dels, adds, j - 1)]

(* The walk over one hunk's filtered items in build_split_display_map. *)
RECURSIVE SplitItemRows(_, _, _)
SplitItemRows(items, i, hunk_idx) ==
    IF i >= Len(items) THEN <<>>
    ELSE LET it == items[i + 1] IN
         IF it.kind = "CollapsedIndicator"
         THEN <<IndicatorRow(hunk_idx, it)>>
              \o SplitItemRows(items, i + 1, hunk_idx)
         ELSE IF it.line.origin = "Context"
         THEN <<ContentRow(hunk_idx, Some(it.hunk_line_index),
                           it.line.old_lineno, it.line.new_lineno,
                           Some("Context"))>>
              \o SplitItemRows(items, i + 1, hunk_idx)
         ELSE IF it.line.origin = "Deletion"
         THEN LET del_start == i
                  add_start == SkipOrigin(items, i, "Deletion")
                  i_end == SkipOrigin(items, add_start, "Addition")
                  dels == LinesOf(items, del_start, add_start)
                  adds == LinesOf(items, add_start, i_end)
              IN  PairRows(hunk_idx, dels, adds)
                  \o SplitItemRows(items, i_end, hunk_idx)
         ELSE <<ContentRow(hunk_idx, Some(it.hunk_line_index), None,
                           it.line.new_lineno, Some("Addition"))>>
              \o SplitItemRows(items, i + 1, hunk_idx)

(* The loop over delta.hunks from hunk_idx with the running gap_id_offset. *)
RECURSIVE SplitHunkRows(_, _, _, _, _)
SplitHunkRows(hunks, hunk_idx, dc, ge, gap_id_offset) ==
    IF hunk_idx >= Len(hunks) THEN <<>>
    ELSE LET f == filter_hunk_lines(hunks[hunk_idx + 1].lines, dc, ge,
                                    gap_id_offset)
         IN  <<HeaderRow(hunk_idx)>>
             \o SplitItemRows(f.items, 0, hunk_idx)
             \o SplitHunkRows(hunks, hunk_idx + 1, dc, ge, f.gap_id)

(* Mutant of build_split_display_map: the id counter restarts at 0 in      *)
(* every hunk.                                                             *)
build_split_display_map_restarting(d, dc, ge) ==
    Flatten([h \in 1..Len(d.hunks) |->
               SplitHunkRows(SubSeq(d.hunks, 1, h), h - 1, dc, ge, 0)])

build_split_display_map(d, dc, ge) == SplitHunkRows(d.hunks, 0, dc, ge, 0)

UnifiedItemRow(hunk_idx, it) ==
    IF it.kind = "CollapsedIndicator"
    THEN IndicatorRow(hunk_idx, it)
    ELSE ContentRow(hunk_idx, Some(it.hunk_line_index), it.line.old_lineno,
                    it.line.new_lineno, Some(it.line.origin))

RECURSIVE UnifiedHunkRows(_, _, _, _, _)
UnifiedHunkRows(hunks, hunk_idx, dc, ge, gap_id_offset) ==
    IF hunk_idx >= Len(hunks) THEN <<>>
    ELSE LET f == filter_hunk_lines(hunks[hunk_idx + 1].lines, dc, ge,
                                    gap_id_offset)
         IN  <<HeaderRow(hunk_idx)>>
             \o [k \in 1..Len(f.items) |-> UnifiedItemRow(hunk_idx, f.items[k])]
             \o UnifiedHunkRows(hunks, hunk_idx + 1, dc, ge, f.gap_id)

(* Mutant of build_unified_display_map: a delta whose hunks all have no    *)
(* lines yields no rows.                                                   *)
build_unified_display_map_no_empty_headers(d, dc, ge) ==
    IF \A h \in 1..Len(d.hunks) : d.hunks[h].lines = <<>>
    THEN <<>>
    ELSE UnifiedHunkRows(d.hunks, 0, dc, ge, 0)

build_unified_display_map(d, dc, ge) == UnifiedHunkRows(d.hunks, 0, dc, ge, 0)

build_display_map(d, mode, dc, ge) ==
    IF mode = "Split"
    THEN build_split_display_map(d, dc, ge)
    ELSE build_unified_display_map(d, dc, ge)

----------------------------------------------------------------------------
(* Rendered lines: src/components/diff_view.rs.  A Line is a sequence of   *)
(* spans, a span is [content, style], content is a sequence of characters. *)
(* Non-ASCII glyphs are written with ASCII stand-ins: "|" annotation       *)
(* marker, "~" ellipsis, "v" / "^" carets, ">" continuation arrow; "W" is  *)
(* a double-width character.                                               *)

GutterWidth == 5

SplitGutterWidth == GutterWidth + 1

UnifiedGutterWidth == GutterWidth + 1 + GutterWidth + 1 + 1

CharWidth(ch) == IF ch = "W" THEN 2 ELSE 1

Span(content, style) == [content |-> content, style |-> style]

Style(fg, bg) == [fg |-> fg, bg |-> bg]

(* Line::default() *)
LineDefault == <<>>

SpanWidth(sp) == SumSeq([k \in 1..Len(sp.content) |-> CharWidth(sp.content[k])])

DigitChars == <<"0", "1", "2", "3", "4", "5", "6", "7", "8", "9">>

RECURSIVE Digits(_)
Digits(n) ==
    IF n < 10 THEN <<DigitChars[n + 1]>>
    ELSE Digits(n \div 10) \o <<DigitChars[(n % 10) + 1]>>

(* format!("{s:>width$}") *)
PadLeft(s, width) == Repeat(" ", width - Len(s)) \o s

format_lineno(lineno, width) ==
    IF IsSome(lineno)
    THEN PadLeft(Digits(Unwrap(lineno)), width)
    ELSE Repeat(" ", width)

format_gutter_with_marker(gutter, ann_marker) ==
    gutter \o <<IF ann_marker THEN "|" ELSE " ">>

(* content.trim_end_matches('\n') *)
RECURSIVE TrimEndNewline(_)
TrimEndNewline(content) ==
    IF content # <<>> /\ content[Len(content)] = "\n"
    THEN TrimEndNewline(SubSeq(content, 1, Len(content) - 1))
    ELSE content

(* RowHighlight of a row that is neither selected, nor the cursor row of   *)
(* a focused diff view, nor a search match (the state the UI starts in).   *)
row_highlight(display_row) ==
    [gutter_bg |-> None, gutter_fg |-> None, content_bg |-> None]

OrElse(o, dflt) == IF IsSome(o) THEN Unwrap(o) ELSE dflt

(* has_annotation_at(path, old, new), src/state/annotation_state.rs *)
covers_old(anchor, lineno) ==
    /\ IsSome(anchor.old_range)
    /\ lineno >= Unwrap(anchor.old_range)[1]
    /\ lineno <= Unwrap(anchor.old_range)[2]

covers_new(anchor, lineno) ==
    /\ IsSome(anchor.new_range)
    /\ lineno >= Unwrap(anchor.new_range)[1]
    /\ lineno <= Unwrap(anchor.new_range)[2]

(* Mutant of covers: both sides must match. *)
covers_both_sides(anchor, old_lineno, new_lineno) ==
    /\ IsSome(new_lineno) /\ covers_new(anchor, Unwrap(new_lineno))
    /\ IsSome(old_lineno) /\ covers_old(anchor, Unwrap(old_lineno))

covers(anchor, old_lineno, new_lineno) ==
    IF IsSome(new_lineno) /\ covers_new(anchor, Unwrap(new_lineno))
    THEN TRUE
    ELSE IF IsSome(old_lineno) /\ covers_old(anchor, Unwrap(old_lineno))
    THEN TRUE
    ELSE FALSE

has_annotation_at(anns, file_path, old_lineno, new_lineno) ==
    IF file_path \in DOMAIN anns
    THEN \E k \in 1..Len(anns[file_path]) :
            covers(anns[file_path][k].anchor, old_lineno, new_lineno)
    ELSE FALSE

(* has_annotation(state, delta, row_info): the gutter marker of a row *)
has_annotation(anns, d, row_info) ==
    has_annotation_at(anns, d.path, row_info.old_lineno, row_info.new_lineno)

GutterStyle(hl, base_fg, base_bg) ==
    Style(OrElse(hl.gutter_fg, base_fg), OrElse(hl.gutter_bg, base_bg))

make_hunk_header_line(gutter_width, header, hl, ann_marker) ==
    <<Span(PadLeft(<<".", ".", ".">>, gutter_width)
             \o <<IF ann_marker THEN "|" ELSE " ">>,
           GutterStyle(hl, "text_muted", "none")),
      Span(header, Style("text_muted", OrElse(hl.content_bg, "none")))>>

make_hunk_header_line_unified(gutter_width, header, hl, ann_marker) ==
    <<Span(PadLeft(<<".", ".", ".">>, gutter_width)
             \o <<IF ann_marker THEN "|" ELSE " ">>,
           GutterStyle(hl, "text_muted", "none")),
      Span(header, Style("diff_hunk_header_fg", OrElse(hl.content_bg, "none")))>>

(* old_highlights / new_highlights are empty (DiffState::default), so     *)
(* every lookup of a line's highlight spans is None and the content is one *)
(* span: the "Fallback: no highlighting" branch.                           *)
(* diff_bg is None, Some("diff_del_bg") or Some("diff_add_bg") *)
make_highlighted_line(gutter, content, diff_bg, hl, ann_marker) ==
    LET trimmed == TrimEndNewline(content)
        content_bg == IF IsSome(hl.content_bg) THEN hl.content_bg ELSE diff_bg
        gutter_span == Span(format_gutter_with_marker(gutter, ann_marker),
                            GutterStyle(hl, IF ann_marker THEN "cursor_line_fg"
                                            ELSE "text_muted", "none"))
        fg == IF IsSome(content_bg) /\ ~IsSome(hl.content_bg)
              THEN IF Unwrap(content_bg) = "diff_del_bg" THEN "diff_del_fg"
                   ELSE IF Unwrap(content_bg) = "diff_add_bg" THEN "diff_add_fg"
                   ELSE "text"
              ELSE "text"
    IN  <<gutter_span, Span(trimmed, Style(fg, OrElse(content_bg, "none")))>>

make_empty_line(gutter_width, hl) ==
    <<Span(Repeat(" ", gutter_width) \o <<" ">>,
           GutterStyle(hl, "text_muted", "collapsed_bg")),
      Span(<<" ">>, Style("text_muted", OrElse(hl.content_bg, "collapsed_bg")))>>

IndicatorLabel(hidden_count, direction) ==
    LET caret == IF direction = "Down" THEN "v" ELSE "^"
    IN  <<caret, " ">> \o Digits(hidden_count)
        \o <<" ", "l", "i", "n", "e", "s", " ",
             "h", "i", "d", "d", "e", "n", " ", caret>>

make_collapsed_indicator_line(gutter_width, hidden_count, direction, hl) ==
    <<Span(PadLeft(<<"~">>, gutter_width) \o <<" ">>,
           GutterStyle(hl, "text_muted", "none")),
      Span(IndicatorLabel(hidden_count, direction),
           Style("text_muted", OrElse(hl.content_bg, "none")))>>

make_collapsed_indicator_line_unified(gutter_width, hidden_count, direction, hl) ==
    <<Span(PadLeft(<<"~">>, gutter_width) \o <<" ">>
             \o PadLeft(<<"~">>, gutter_width) \o <<" ">>,
           GutterStyle(hl, "text_muted", "none")),
      Span(IndicatorLabel(hidden_count, direction),
           Style("text_muted", OrElse(hl.content_bg, "none")))>>

make_unified_highlighted(old_g, new_g, prefix, content, diff_bg, hl, ann_marker) ==
    LET trimmed == TrimEndNewline(content)
        content_bg == IF IsSome(hl.content_bg) THEN hl.content_bg ELSE diff_bg
        gutter_span == Span(old_g \o <<" ">> \o new_g
                              \o <<IF ann_marker THEN "|" ELSE " ">>,
                            GutterStyle(hl, IF ann_marker THEN "cursor_line_fg"
                                            ELSE "text_muted", "none"))
        prefix_span == Span(<<prefix>>,
                            Style(IF prefix = "+" THEN "diff_add_fg"
                                  ELSE IF prefix = "-" THEN "diff_del_fg"
                                  ELSE "text_muted",
                                  OrElse(content_bg, "none")))
    IN  <<gutter_span, prefix_span,
          Span(trimmed, Style("text", OrElse(content_bg, "none")))>>

----------------------------------------------------------------------------
(* build_split_lines_core / build_unified_lines_core.                     *)

(* display_map.get(display_row).is_some_and(|info| has_annotation(..)) *)
AnnMarker(anns, d, display_map, display_row) ==
    /\ display_row < Len(display_map)
    /\ has_annotation(anns, d, display_map[display_row + 1])

(* One row of a deletion/addition block, left side and right side. *)
PairLeft(dels, j, hl, ann_marker) ==
    IF j < Len(dels)
    THEN make_highlighted_line(
             format_lineno(dels[j + 1].line.old_lineno, GutterWidth),
             dels[j + 1].line.content, Some("diff_del_bg"), hl, ann_marker)
    ELSE make_empty_line(GutterWidth, hl)

PairRight(adds, j, hl) ==
    IF j < Len(adds)
    THEN make_highlighted_line(
             format_lineno(adds[j + 1].line.new_lineno, GutterWidth),
             adds[j + 1].line.content, Some("diff_add_bg"), hl, FALSE)
    ELSE make_empty_line(GutterWidth, hl)

(* for j in 0..max: the lines a block pushes to left and to right *)
BlockLeft(dels, adds, display_row, d, anns, display_map) ==
    [j \in 1..Max(Len(dels), Len(adds)) |->
        PairLeft(dels, j - 1, row_highlight(display_row + j - 1),
                 AnnMarker(anns, d, display_map, display_row + j - 1))]

(* Mutant of BlockRight: the right side is not padded. *)
BlockRightNoPadding(dels, adds, display_row) ==
    [j \in 1..Len(adds) |->
        PairRight(adds, j - 1, row_highlight(display_row + j - 1))]

BlockRight(dels, adds, display_row) ==
    [j \in 1..Max(Len(dels), Len(adds)) |->
        PairRight(adds, j - 1, row_highlight(display_row + j - 1))]

(* The walk over one hunk's filtered items: lines pushed to left, right. *)
RECURSIVE SplitItemLines(_, _, _, _, _, _)
SplitItemLines(items, i, display_row, d, anns, display_map) ==
    IF i >= Len(items) THEN [left |-> <<>>, right |-> <<>>]
    ELSE LET it == items[i + 1]
             hl == row_highlight(display_row)
             ann_marker == AnnMarker(anns, d, display_map, display_row)
         IN
         IF it.kind = "CollapsedIndicator"
         THEN LET rest == SplitItemLines(items, i + 1, display_row + 1, d,
                                         anns, display_map)
                  ind == make_collapsed_indicator_line(
                             GutterWidth, it.hidden_count, it.direction, hl)
              IN  [left |-> <<ind>> \o rest.left,
                   right |-> <<ind>> \o rest.right]
         ELSE IF it.line.origin = "Context"
         THEN LET rest == SplitItemLines(items, i + 1, display_row + 1, d,
                                         anns, display_map)
              IN  [left |-> <<make_highlighted_line(
                                 format_lineno(it.line.old_lineno, GutterWidth),
                                 it.line.content, None, hl, ann_marker)>>
                            \o rest.left,
                   right |-> <<make_highlighted_line(
                                 format_lineno(it.line.new_lineno, GutterWidth),
                                 it.line.content, None, hl, FALSE)>>
                            \o rest.right]
         ELSE IF it.line.origin = "Deletion"
         THEN LET add_start == SkipOrigin(items, i, "Deletion")
                  i_end == SkipOrigin(items, add_start, "Addition")
                  dels == LinesOf(items, i, add_start)
                  adds == LinesOf(items, add_start, i_end)
                  max == Max(Len(dels), Len(adds))
                  rest == SplitItemLines(items, i_end, display_row + max, d,
                                         anns, display_map)
              IN  [left |-> BlockLeft(dels, adds, display_row, d, anns,
                                      display_map) \o rest.left,
                   right |-> BlockRight(dels, adds, display_row)
                             \o rest.right]
         ELSE LET rest == SplitItemLines(items, i + 1, display_row + 1, d,
                                         anns, display_map)
              IN  [left |-> <<make_empty_line(GutterWidth, hl)>> \o rest.left,
                   right |-> <<make_highlighted_line(
                                 format_lineno(it.line.new_lineno, GutterWidth),
                                 it.line.content, Some("diff_add_bg"), hl,
                                 ann_marker)>>
                             \o rest.right]

(* The loop over delta.hunks from hunk_idx. *)
RECURSIVE SplitHunkLines(_, _, _, _, _, _, _, _)
SplitHunkLines(d, hunk_idx, display_row, gap_id_offset, dc, ge, anns, display_map) ==
    IF hunk_idx >= Len(d.hunks) THEN [left |-> <<>>, right |-> <<>>]
    ELSE LET hunk == d.hunks[hunk_idx + 1]
             hl == row_highlight(display_row)
             ann_marker == AnnMarker(anns, d, display_map, display_row)
             f == filter_hunk_lines(hunk.lines, dc, ge, gap_id_offset)
             body == SplitItemLines(f.items, 0, display_row + 1, d, anns,
                                    display_map)
             rest == SplitHunkLines(d, hunk_idx + 1,
                                    display_row + 1 + Len(body.left),
                                    f.gap_id, dc, ge, anns, display_map)
         IN  [left |-> <<make_hunk_header_line(GutterWidth, hunk.header, hl,
                                               ann_marker)>>
                       \o body.left \o rest.left,
              right |-> <<make_hunk_header_line(GutterWidth, hunk.header, hl,
                                                FALSE)>>
                        \o body.right \o rest.right]

build_split_lines_core(d, dc, ge, anns, display_map) ==
    SplitHunkLines(d, 0, 0, 0, dc, ge, anns, display_map)

UnifiedItemLine(it, hl, ann_marker) ==
    IF it.kind = "CollapsedIndicator"
    THEN make_collapsed_indicator_line_unified(GutterWidth, it.hidden_count,
                                               it.direction, hl)
    ELSE LET old_g == format_lineno(it.line.old_lineno, GutterWidth)
             new_g == format_lineno(it.line.new_lineno, GutterWidth)
             blank == Repeat(" ", GutterWidth)
         IN  IF it.line.origin = "Context"
             THEN make_unified_highlighted(old_g, new_g, " ", it.line.content,
                                           None, hl, ann_marker)
             ELSE IF it.line.origin = "Addition"
             THEN make_unified_highlighted(blank, new_g, "+", it.line.content,
                                           Some("diff_add_bg"), hl, ann_marker)
             ELSE make_unified_highlighted(old_g, blank, "-", it.line.content,
                                           Some("diff_del_bg"), hl, ann_marker)

RECURSIVE UnifiedHunkLines(_, _, _, _, _, _, _, _)
UnifiedHunkLines(d, hunk_idx, display_row, gap_id_offset, dc, ge, anns, display_map) ==
    IF hunk_idx >= Len(d.hunks) THEN <<>>
    ELSE LET hunk == d.hunks[hunk_idx + 1]
             f == filter_hunk_lines(hunk.lines, dc, ge, gap_id_offset)
         IN  <<make_hunk_header_line_unified(
                   GutterWidth, hunk.header, row_highlight(display_row),
                   AnnMarker(anns, d, display_map, display_row))>>
             \o [k \in 1..Len(f.items) |->
                   UnifiedItemLine(f.items[k], row_highlight(display_row + k),
                                   AnnMarker(anns, d, display_map,
                                             display_row + k))]
             \o UnifiedHunkLines(d, hunk_idx + 1,
                                 display_row + 1 + Len(f.items), f.gap_id,
                                 dc, ge, anns, display_map)

(* Mutant of build_unified_lines_core: collapsed indicators are not drawn. *)
build_unified_lines_core_without_indicators(d, dc, ge, anns, display_map) ==
    SelectSeq(UnifiedHunkLines(d, 0, 0, 0, dc, ge, anns, display_map),
              LAMBDA l : l[1].content[GutterWidth] # "~")

build_unified_lines_core(d, dc, ge, anns, display_map) ==
    UnifiedHunkLines(d, 0, 0, 0, dc, ge, anns, display_map)

----------------------------------------------------------------------------
(* Synchronized wrapper: src/components/diff_view.rs.                      *)

LineWidth(line) == SumSeq([k \in 1..Len(line) |-> SpanWidth(line[k])])

(* content spans flattened into (char, Style) pairs *)
FlattenChars(spans) ==
    Flatten([k \in 1..Len(spans) |->
               [c \in 1..Len(spans[k].content) |->
                   [ch |-> spans[k].content[c], style |-> spans[k].style]]])

(* Mutant of Coalesce: the whole chunk is one span in the style of its     *)
(* first character.                                                        *)
CoalesceFirstStyle(chunk, k, current_text, current_style) ==
    <<Span([j \in 1..Len(chunk) |-> chunk[j].ch], current_style)>>

(* spans of a chunk, adjacent characters of equal style coalesced *)
RECURSIVE Coalesce(_, _, _, _)
Coalesce(chunk, k, current_text, current_style) ==
    IF k > Len(chunk)
    THEN IF current_text # <<>> THEN <<Span(current_text, current_style)>>
         ELSE <<>>
    ELSE IF chunk[k].style = current_style
    THEN Coalesce(chunk, k + 1, current_text \o <<chunk[k].ch>>, current_style)
    ELSE (IF current_text # <<>> THEN <<Span(current_text, current_style)>>
          ELSE <<>>)
         \o Coalesce(chunk, k + 1, <<chunk[k].ch>>, chunk[k].style)

(* while offset < chars.len(): one visual row per chunk of content_width *)
RECURSIVE WrapChunks(_, _, _, _, _, _)
WrapChunks(chars, offset, content_width, gutter_span, cont_span, is_first) ==
    IF offset >= Len(chars) THEN <<>>
    ELSE LET end == Min(offset + content_width, Len(chars))
             chunk == SubSeq(chars, offset + 1, end)
             chunk_spans == Coalesce(chunk, 1, <<>>, chunk[1].style)
         IN  <<<<IF is_first THEN gutter_span ELSE cont_span>> \o chunk_spans>>
             \o WrapChunks(chars, end, content_width, gutter_span, cont_span,
                           FALSE)

(* Mutant of wrap_single_line_for_display: chunks are as wide as the    *)
(* pane, no room reserved for the gutter.                                  *)
wrap_single_line_full_width(line, width, gutter_width, wrap_enabled) ==
    IF ~wrap_enabled \/ width = 0 THEN <<line>>
    ELSE IF SaturatingSub(width, gutter_width) = 0 THEN <<line>>
    ELSE IF LineWidth(line) <= width THEN <<line>>
    ELSE IF line = <<>> THEN <<LineDefault>>
    ELSE LET cont_span ==
                 Span(Repeat(" ", SaturatingSub(gutter_width, 1)) \o <<">">>,
                      Style("text_muted", line[1].style.bg))
             result == WrapChunks(FlattenChars(Tail(line)), 0, width, line[1],
                                  cont_span, TRUE)
         IN  IF result = <<>> THEN <<<<line[1]>>>> ELSE result

wrap_single_line_for_display(line, width, gutter_width, wrap_enabled) ==
    IF ~wrap_enabled \/ width = 0 THEN <<line>>
    ELSE LET max_width == width
             content_width == SaturatingSub(max_width, gutter_width)
         IN  IF content_width = 0 THEN <<line>>
             ELSE IF LineWidth(line) <= max_width THEN <<line>>
             ELSE IF line = <<>> THEN <<LineDefault>>
             ELSE LET gutter_span == line[1]
                      chars == FlattenChars(Tail(line))
                      cont_span ==
                          Span(Repeat(" ", SaturatingSub(gutter_width, 1))
                                 \o <<">">>,
                               Style("text_muted", gutter_span.style.bg))
                      result == WrapChunks(chars, 0, content_width,
                                           gutter_span, cont_span, TRUE)
                  IN  IF result = <<>> THEN <<<<gutter_span>>>> ELSE result

RECURSIVE WrapLoop(_, _, _, _, _, _, _)
WrapLoop(lines, k, width, gutter_width, wrap_enabled, remaining_skip, remaining_height) ==
    IF k > Len(lines) THEN <<>>
    ELSE LET wrapped == wrap_single_line_for_display(
                            lines[k], width, gutter_width, wrap_enabled)
         IN  IF remaining_skip >= Len(wrapped)
             THEN WrapLoop(lines, k + 1, width, gutter_width, wrap_enabled,
                           remaining_skip - Len(wrapped), remaining_height)
             ELSE LET start == remaining_skip
                      n == Min(Len(wrapped) - start, remaining_height)
                  IN  SubSeq(wrapped, start + 1, start + n)
                      \o (IF remaining_height - n = 0 THEN <<>>
                          ELSE WrapLoop(lines, k + 1, width, gutter_width,
                                        wrap_enabled, 0, remaining_height - n))

(* Mutant of wrap_lines_for_display_with_scroll: the window is padded    *)
(* with blank rows up to the viewport height.                              *)
wrap_lines_padded_to_height(lines, width, gutter_width, wrap_enabled, start_visual, height) ==
    LET rows == WrapLoop(lines, 1, width, gutter_width, wrap_enabled,
                         start_visual, height)
    IN  rows \o Repeat(LineDefault, height - Len(rows))

wrap_lines_for_display_with_scroll(lines, width, gutter_width, wrap_enabled, start_visual, height) ==
    IF height = 0 THEN <<>>
    ELSE WrapLoop(lines, 1, width, gutter_width, wrap_enabled, start_visual,
                  height)

(* left_wrapped.get(i).cloned().unwrap_or_else(Line::default) *)
GetOrDefault(wrapped, i) ==
    IF i < Len(wrapped) THEN wrapped[i + 1] ELSE LineDefault

(* skip(start).take(height) *)
SkipTake(s, start, height) ==
    SubSeq(s, start + 1, Min(Len(s), start + height))

(* The lock-step loop over zip(left_lines, right_lines) from pair k. *)
RECURSIVE SplitWrapLoop(_, _, _, _, _, _, _, _)
SplitWrapLoop(left_lines, right_lines, k, width, gutter_width, wrap_enabled, remaining_skip, remaining_height) ==
    IF k > Min(Len(left_lines), Len(right_lines))
    THEN [left |-> <<>>, right |-> <<>>]
    ELSE LET left_wrapped == wrap_single_line_for_display(
                                 left_lines[k], width, gutter_width, wrap_enabled)
             right_wrapped == wrap_single_line_for_display(
                                 right_lines[k], width, gutter_width, wrap_enabled)
             max_height == Max(Len(left_wrapped), Len(right_wrapped))
         IN  IF remaining_skip >= max_height
             THEN SplitWrapLoop(left_lines, right_lines, k + 1, width,
                                gutter_width, wrap_enabled,
                                remaining_skip - max_height, remaining_height)
             ELSE LET start == remaining_skip
                      n == Min(max_height - start, remaining_height)
                      rest == IF remaining_height - n = 0
                              THEN [left |-> <<>>, right |-> <<>>]
                              ELSE SplitWrapLoop(left_lines, right_lines, k + 1,
                                                 width, gutter_width,
                                                 wrap_enabled, 0,
                                                 remaining_height - n)
                  IN  [left |-> [i \in 1..n |->
                                   GetOrDefault(left_wrapped, start + i - 1)]
                                \o rest.left,
                       right |-> [i \in 1..n |->
                                    GetOrDefault(right_wrapped, start + i - 1)]
                                 \o rest.right]

(* Mutant of wrap_split_lines_synchronized_with_scroll: each pane is     *)
(* wrapped and windowed on its own.                                        *)
wrap_split_lines_independently(left_lines, right_lines, width, gutter_width, wrap_enabled, start_visual, height) ==
    [left |-> wrap_lines_for_display_with_scroll(
                  left_lines, width, gutter_width, wrap_enabled, start_visual,
                  height),
     right |-> wrap_lines_for_display_with_scroll(
                   right_lines, width, gutter_width, wrap_enabled, start_visual,
                   height)]

wrap_split_lines_synchronized_with_scroll(left_lines, right_lines, width, gutter_width, wrap_enabled, start_visual, height) ==
    IF height = 0 THEN [left |-> <<>>, right |-> <<>>]
    ELSE IF ~wrap_enabled \/ width = 0
    THEN [left |-> SkipTake(left_lines, start_visual, height),
          right |-> SkipTake(right_lines, start_visual, height)]
    ELSE SplitWrapLoop(left_lines, right_lines, 1, width, gutter_width,
                       wrap_enabled, start_visual, height)

(* build_split_lines: core lines, then the synchronized wrapper *)
build_split_lines(d, scroll, height, dc, ge, anns, display_map, width, wrap_enabled) ==
    CHOOSE vis \in
        { wrap_split_lines_synchronized_with_scroll(
              core.left, core.right, width, GutterWidth + 1, wrap_enabled,
              scroll, height)
          : core \in {build_split_lines_core(d, dc, ge, anns, display_map)} }
        : TRUE

(* What render_split / render_unified hand to the two (one) paragraphs. *)
render_split(d, dc, ge, anns, width, height, scroll) ==
    CHOOSE f \in
        { [mode |-> "Split", left |-> vis.left, right |-> vis.right]
          : vis \in { build_split_lines(d, scroll, height, dc, ge, anns,
                                        display_map, width, TRUE)
                      : display_map \in {build_display_map(d, "Split", dc, ge)} } }
        : TRUE

render_unified(d, dc, ge, anns, width, height, scroll) ==
    CHOOSE f \in
        { [mode |-> "Unified", left |-> wrapped, right |-> <<>>]
          : wrapped \in
              { wrap_lines_for_display_with_scroll(
                    lines, width, UnifiedGutterWidth, TRUE, scroll, height)
                : lines \in
                    { build_unified_lines_core(d, dc, ge, anns, display_map)
                      : display_map \in
                          {build_display_map(d, "Unified", dc, ge)} } } }
        : TRUE

----------------------------------------------------------------------------
(* Input deltas, as the diff collaborator hands them over: origin-tagged   *)
(* lines with old/new line numbers counted from the hunk's start.          *)

Origins == {"Context", "Addition", "Deletion"}

Texts ==
    << <<"\n">>,
       <<"a", "b", "\n">>,
       <<"a", "b", "c", "d", "e", "f", "g", "\n">>,
       <<"W", "a", "W", "\n">>,
       <<"x">> >>

TextOf(n, shift) == Texts[((n + shift) % Len(Texts)) + 1]

MkLine(origin, old, new, shift) ==
    [origin |-> origin,
     old_lineno |-> IF origin = "Addition" THEN None ELSE Some(old),
     new_lineno |-> IF origin = "Deletion" THEN None ELSE Some(new),
     content |-> TextOf(IF origin = "Deletion" THEN old ELSE new, shift)]

RECURSIVE MkLines(_, _, _, _)
MkLines(origins, old, new, shift) ==
    IF origins = <<>> THEN <<>>
    ELSE <<MkLine(Head(origins), old, new, shift)>>
         \o MkLines(Tail(origins),
                    IF Head(origins) = "Addition" THEN old ELSE old + 1,
                    IF Head(origins) = "Deletion" THEN new ELSE new + 1,
                    shift)

MkHunk(origins, start, shift) ==
    [header |-> <<"@", "@">> \o Digits(start),
     lines |-> MkLines(origins, start, start, shift)]

(* hunk k of a delta starts at line starts[k] *)
MkDelta(origin_seqs, starts, shift) ==
    [path |-> "a.rs",
     hunks |-> [k \in 1..Len(origin_seqs) |->
                  MkHunk(origin_seqs[k], starts[k], shift)]]

Ctx(n) == Repeat("Context", n)

OriginSeqs == UNION {[1..n -> Origins] : n \in 0..MaxLines}

LongDeltas ==
    { MkDelta(<< <<"Deletion">> \o Ctx(10) \o <<"Addition">> >>, <<1>>, 0),
      MkDelta(<< Ctx(3) \o <<"Deletion">> \o Ctx(3) \o <<"Addition">> \o Ctx(2),
                 Ctx(2) \o <<"Deletion", "Addition", "Addition">> \o Ctx(3) >>,
              <<1, 40>>, 0),
      MkDelta(<< <<>>, <<"Context", "Deletion">> >>, <<1, 20>>, 0),
      MkDelta(<< Ctx(4) \o <<"Deletion">> \o Ctx(5) >>, <<1>>, 0),
      MkDelta(<<>>, <<>>, 0) }

LayoutDeltas ==
    {MkDelta(<<o>>, <<1>>, 0) : o \in OriginSeqs} \cup LongDeltas

ExpMaps == [0..MaxGapKey -> {0, MaxExtra}] \cup {(0 :> 4)}

WrapDeltas ==
    { MkDelta(<< <<"Context", "Deletion", "Deletion", "Addition", "Context">> >>,
              <<1>>, sh) : sh \in 0..1 }
    \cup
    { MkDelta(<< <<"Deletion", "Context", "Context", "Addition">>,
                 <<"Addition", "Context">> >>, <<1234566, 1234580>>, 0) }
    \cup
    { MkDelta(<< <<"Context", "Addition">> >>, <<1>>, 0) }

Widths == {0, 6, 7, 8, 10, 14, 16}

Modes == {"Split", "Unified"}

NoFrame == [mode |-> "None", left |-> <<>>, right |-> <<>>]

EmptyAnnotations == <<>>

(* SelectionState::default() *)
NoSelection == [active |-> FALSE, anchor |-> 0, cursor |-> 0]

(* no session file on disk *)
NoSessionFile == <<>>

(* TextBuffer::new *)
NewTextBuffer == [text |-> <<>>, cursor |-> 0]

(* DiffWorker::new: nothing requested, nothing computed *)
NewWorker == [computing |-> {}, results |-> <<>>]

(* ReviewState::default *)
NewReview == [files |-> <<>>, current_hashes |-> <<>>]

(* App::new before the first request_diff, with nothing on disk *)
AppIdle ==
    /\ session_file = NoSessionFile
    /\ text_buffer = NewTextBuffer
    /\ generation = 0
    /\ loading = FALSE
    /\ deltas = <<>>
    /\ worker = NewWorker
    /\ navigator = <<>>
    /\ review = NewReview

----------------------------------------------------------------------------
(* The UI session: src/app.rs.                                             *)

MaxContextLines == 20

(* DiffState::new: display_context: 3 *)
DefaultDisplayContext == 3

current_display_map ==
    build_display_map(delta, view_mode, display_context, gap_expansions)

(* map_key_to_action: the comment editor takes every key while open; the  *)
(* diff view's own bindings are reached outside visual mode.               *)
EditorKeys == comment_editor_open

VisualKeys == ~comment_editor_open /\ selection.active

DiffViewKeys == ~comment_editor_open /\ ~selection.active

(* DiffView::render for the selected delta *)
Draw ==
    /\ frame = NoFrame
    /\ frame' = IF view_mode = "Split"
                THEN render_split(delta, display_context, gap_expansions,
                                  annotations, pane_width, viewport_height,
                                  scroll_offset)
                ELSE render_unified(delta, display_context, gap_expansions,
                                    annotations, pane_width, viewport_height,
                                    scroll_offset)
    /\ UNCHANGED <<delta, view_mode, display_context, gap_expansions,
                   pane_width, viewport_height, scroll_offset, cursor_row,
                   annotations,
                   selection, comment_editor_open, app_vars>>

(* Action::ToggleViewMode *)
ToggleViewMode ==
    /\ ~comment_editor_open
    /\ view_mode' = IF view_mode = "Split" THEN "Unified" ELSE "Split"
    /\ cursor_row' = 0
    /\ scroll_offset' = 0
    /\ selection' = [selection EXCEPT !.active = FALSE]
    /\ frame' = NoFrame
    /\ UNCHANGED <<delta, display_context, gap_expansions, pane_width,
                   viewport_height, annotations, comment_editor_open, app_vars>>

(* Action::SettingsLeft on the context-lines row: decrease, minimum 1 *)
SettingsLeft ==
    /\ DiffViewKeys
    /\ display_context' = IF display_context > 1 THEN display_context - 1
                          ELSE display_context
    /\ frame' = NoFrame
    /\ UNCHANGED <<delta, view_mode, gap_expansions, pane_width,
                   viewport_height, scroll_offset, cursor_row, annotations,
                   selection, comment_editor_open, app_vars>>

(* Action::SettingsRight on the context-lines row: increase, maximum 20 *)
SettingsRight ==
    /\ DiffViewKeys
    /\ display_context < MaxCtx
    /\ display_context' = IF display_context < MaxContextLines
                          THEN display_context + 1 ELSE display_context
    /\ frame' = NoFrame
    /\ UNCHANGED <<delta, view_mode, gap_expansions, pane_width,
                   viewport_height, scroll_offset, cursor_row, annotations,
                   selection, comment_editor_open, app_vars>>

(* The terminal size read at the top of the run loop. *)
Resize ==
    /\ \E w \in Widths, h \in 0..MaxHeight :
          /\ pane_width' = w
          /\ viewport_height' = h
    /\ frame' = NoFrame
    /\ UNCHANGED <<delta, view_mode, display_context, gap_expansions,
                   scroll_offset, cursor_row, annotations,
                   selection, comment_editor_open, app_vars>>

(* Action::ScrollUp *)
ScrollUp ==
    /\ DiffViewKeys
    /\ cursor_row' = SaturatingSub(cursor_row, 1)
    /\ scroll_offset' = IF cursor_row' < scroll_offset THEN cursor_row'
                        ELSE scroll_offset
    /\ frame' = NoFrame
    /\ UNCHANGED <<delta, view_mode, display_context, gap_expansions,
                   pane_width, viewport_height, annotations,
                   selection, comment_editor_open, app_vars>>

(* Action::ScrollDown *)
ScrollDown ==
    LET max == SaturatingSub(Len(current_display_map), 1)
        vh == viewport_height
    IN  /\ DiffViewKeys
        /\ cursor_row' = IF cursor_row < max THEN cursor_row + 1
                         ELSE cursor_row
        /\ scroll_offset' = IF cursor_row' >= scroll_offset + vh
                            THEN cursor_row' - vh + 1 ELSE scroll_offset
        /\ frame' = NoFrame
        /\ UNCHANGED <<delta, view_mode, display_context, gap_expansions,
                       pane_width, viewport_height, annotations,
                   selection, comment_editor_open, app_vars>>

(* (start, end) ranges of an anchor, start <= end, None included *)
Ranges ==
    {None} \cup {Some(r) : r \in {x \in (1..MaxLineNo) \X (1..MaxLineNo) :
                                      x[1] <= x[2]}}

RECURSIVE CountOver(_, _)
CountOver(anns, paths) ==
    IF paths = {} THEN 0
    ELSE LET p == CHOOSE x \in paths : TRUE
         IN  Len(anns[p]) + CountOver(anns, paths \ {p})

(* annotations.values().map(Vec::len).sum() *)
AnnotationCount(anns) == CountOver(anns, DOMAIN anns)

(* AnnotationState::add: entry(key).or_default().push(annotation) *)
add(anns, annotation) ==
    LET key == annotation.anchor.file_path
    IN  IF key \in DOMAIN anns
        THEN [anns EXCEPT ![key] = Append(@, annotation)]
        ELSE anns @@ (key :> <<annotation>>)

(* Action::ConfirmComment creating an annotation on the selected delta *)
AnnotationAdd ==
    /\ AnnotationCount(annotations) < MaxAnnotations
    /\ \E o \in Ranges, n \in Ranges :
          annotations' = add(annotations,
                             [anchor |-> [file_path |-> delta.path,
                                          old_range |-> o, new_range |-> n],
                              comment |-> "c",
                              created_at |-> "t"])
    /\ frame' = NoFrame
    /\ UNCHANGED <<delta, view_mode, display_context, gap_expansions,
                   pane_width, viewport_height, scroll_offset, cursor_row,
                   selection, comment_editor_open, app_vars>>

(* Mutant of DisplayMapGet: a stale index is clamped to the last row. *)
DisplayMapGetClamped(display_map, row_idx) ==
    IF row_idx < Len(display_map) THEN Some(display_map[row_idx + 1])
    ELSE IF display_map # <<>> THEN Some(display_map[Len(display_map)])
    ELSE None

(* display_map.get(row_idx) *)
DisplayMapGet(display_map, row_idx) ==
    IF row_idx < Len(display_map) THEN Some(display_map[row_idx + 1])
    ELSE None

(* gap_expansions.insert(gap_id, amount) *)
Insert(ge, gap_id, amount) ==
    [k \in (DOMAIN ge) \cup {gap_id} |-> IF k = gap_id THEN amount ELSE ge[k]]

ExpandAmount == 20

(* Mutant of ExpandedGaps: the amount goes to the next gap id. *)
ExpandedGapsNextKey(ge, info) ==
    IF IsSome(info) /\ Unwrap(info).is_collapsed_indicator
       /\ IsSome(Unwrap(info).gap_id)
    THEN Insert(ge, Unwrap(Unwrap(info).gap_id) + 1,
                GetOr0(ge, Unwrap(Unwrap(info).gap_id) + 1) + ExpandAmount)
    ELSE ge

(* the body of Action::ExpandContext on the row found at the cursor: the   *)
(* expansion map after it                                                  *)
ExpandedGaps(ge, info) ==
    IF IsSome(info) /\ Unwrap(info).is_collapsed_indicator
       /\ IsSome(Unwrap(info).gap_id)
    THEN Insert(ge, Unwrap(Unwrap(info).gap_id),
                GetOr0(ge, Unwrap(Unwrap(info).gap_id)) + ExpandAmount)
    ELSE ge

(* Mutant of ExpandContext: the expansion also drops the annotations. *)
ExpandContextResetsAnnotations ==
    /\ DiffViewKeys
    /\ \E info \in {DisplayMapGet(current_display_map, cursor_row)} :
          gap_expansions' = ExpandedGaps(gap_expansions, info)
    /\ annotations' = EmptyAnnotations
    /\ frame' = NoFrame
    /\ UNCHANGED <<delta, view_mode, display_context, pane_width,
                   viewport_height, scroll_offset, cursor_row,
                   selection, comment_editor_open, app_vars>>

(* Action::ExpandContext *)
ExpandContext ==
    /\ DiffViewKeys
    /\ \E info \in {DisplayMapGet(current_display_map, cursor_row)} :
          gap_expansions' = ExpandedGaps(gap_expansions, info)
    /\ frame' = NoFrame
    /\ UNCHANGED <<delta, view_mode, display_context, pane_width,
                   viewport_height, scroll_offset, cursor_row, annotations,
                   selection, comment_editor_open, app_vars>>

(* SelectionState::range *)
SelectionRange(sel) ==
    IF sel.anchor <= sel.cursor THEN <<sel.anchor, sel.cursor>>
    ELSE <<sel.cursor, sel.anchor>>

(* min_line = Some(min_line.map_or(lineno, min)), max_line likewise, for   *)
(* each lineno of nums                                                     *)
RECURSIVE FoldLinenos(_, _)
FoldLinenos(acc, nums) ==
    IF nums = <<>> THEN acc
    ELSE FoldLinenos(
             [min_line |-> Some(IF IsSome(acc.min_line)
                                THEN Min(Unwrap(acc.min_line), Head(nums))
                                ELSE Head(nums)),
              max_line |-> Some(IF IsSome(acc.max_line)
                                THEN Max(Unwrap(acc.max_line), Head(nums))
                                ELSE Head(nums))],
             Tail(nums))

(* for row_idx in start..=end { if let Some(info) = display_map.get(..) }  *)
RECURSIVE SelectionFold(_, _, _, _)
SelectionFold(display_map, row_idx, end, acc) ==
    IF row_idx > end THEN acc
    ELSE LET info == DisplayMapGet(display_map, row_idx)
             nums == IF IsSome(info)
                     THEN Unwrap(info).old_lineno \o Unwrap(info).new_lineno
                     ELSE <<>>
         IN  SelectionFold(display_map, row_idx + 1, end,
                           FoldLinenos(acc, nums))

(* App::selection_to_anchor; this LineAnchor carries one line range *)
selection_to_anchor(d, display_map, sel) ==
    LET range == SelectionRange(sel)
        acc == SelectionFold(display_map, range[1], range[2],
                             [min_line |-> None, max_line |-> None])
    IN  Some([file_path |-> d.path,
              line_start |-> OrElse(acc.min_line, 1),
              line_end |-> OrElse(acc.max_line, 1)])

(* App::cursor_to_anchor *)
cursor_to_anchor(d, display_map, cursor) ==
    LET info == DisplayMapGet(display_map, cursor)
    IN  IF ~IsSome(info) THEN None
        ELSE LET lineno == IF IsSome(Unwrap(info).new_lineno)
                           THEN Unwrap(info).new_lineno
                           ELSE Unwrap(info).old_lineno
             IN  IF ~IsSome(lineno) THEN None
                 ELSE Some([file_path |-> d.path,
                            line_start |-> Unwrap(lineno),
                            line_end |-> Unwrap(lineno)])

(* Action::EnterVisualMode *)
EnterVisualMode ==
    /\ DiffViewKeys
    /\ selection' = [active |-> TRUE, anchor |-> cursor_row,
                     cursor |-> cursor_row]
    /\ frame' = NoFrame
    /\ UNCHANGED <<delta, view_mode, display_context, gap_expansions,
                   pane_width, viewport_height, scroll_offset, cursor_row,
                   annotations, comment_editor_open, app_vars>>

(* Action::ExtendSelectionUp *)
ExtendSelectionUp ==
    /\ VisualKeys
    /\ selection' = [selection EXCEPT !.cursor = SaturatingSub(@, 1)]
    /\ scroll_offset' = IF selection'.cursor < scroll_offset
                        THEN selection'.cursor ELSE scroll_offset
    /\ frame' = NoFrame
    /\ UNCHANGED <<delta, view_mode, display_context, gap_expansions,
                   pane_width, viewport_height, cursor_row, annotations,
                   comment_editor_open, app_vars>>

(* Action::ExtendSelectionDown *)
ExtendSelectionDown ==
    /\ VisualKeys
    /\ \E max \in {SaturatingSub(Len(current_display_map), 1)} :
          selection' = IF selection.cursor < max
                       THEN [selection EXCEPT !.cursor = @ + 1]
                       ELSE selection
    /\ frame' = NoFrame
    /\ UNCHANGED <<delta, view_mode, display_context, gap_expansions,
                   pane_width, viewport_height, scroll_offset, cursor_row,
                   annotations, comment_editor_open, app_vars>>

(* Action::OpenCommentEditor *)
OpenCommentEditor ==
    /\ ~comment_editor_open
    /\ selection' = IF ~selection.active
                    THEN [active |-> TRUE, anchor |-> cursor_row,
                          cursor |-> cursor_row]
                    ELSE selection
    /\ comment_editor_open' = TRUE
    /\ frame' = NoFrame
    /\ UNCHANGED <<delta, view_mode, display_context, gap_expansions,
                   pane_width, viewport_height, scroll_offset, cursor_row,
                   annotations, app_vars>>

(* comment_editor_text when Enter is pressed: blank, or a comment *)
EditorTexts == {" ", "c"}

(* Action::ConfirmComment with no annotation being edited; the session is  *)
(* followed up to its first annotation                                     *)
ConfirmComment ==
    /\ EditorKeys
    /\ annotations = EmptyAnnotations
    /\ \E text \in EditorTexts :
       \E anchor \in {selection_to_anchor(delta, current_display_map,
                                          selection)} :
          annotations' =
             IF text # " " /\ IsSome(anchor)
             THEN add(annotations, [anchor |-> Unwrap(anchor),
                                    comment |-> text, created_at |-> "t"])
             ELSE annotations
    /\ comment_editor_open' = FALSE
    /\ selection' = [selection EXCEPT !.active = FALSE]
    /\ frame' = NoFrame
    /\ UNCHANGED <<delta, view_mode, display_context, gap_expansions,
                   pane_width, viewport_height, scroll_offset, cursor_row, app_vars>>

----------------------------------------------------------------------------
(* The annotation store: src/state/annotation_state.rs.                    *)

(* File paths in the byte order Rust compares strings in; "" is the path   *)
(* of no selected delta (unwrap_or_default).                               *)
PathOrder == <<"", "a.rs", "b.rs">>

PathRank(p) == CHOOSE k \in 1..Len(PathOrder) : PathOrder[k] = p

(* LineAnchor::sort_line *)
sort_line(anchor) ==
    IF IsSome(anchor.new_range) THEN Unwrap(anchor.new_range)[1]
    ELSE IF IsSome(anchor.old_range) THEN Unwrap(anchor.old_range)[1]
    ELSE 0

(* (Some((s1, e1)), Some((s2, e2))) => s1 <= e2 && s2 <= e1, _ => false *)
RangeOverlaps(r1, r2) ==
    /\ IsSome(r1)
    /\ IsSome(r2)
    /\ Unwrap(r1)[1] <= Unwrap(r2)[2]
    /\ Unwrap(r2)[1] <= Unwrap(r1)[2]

(* LineAnchor::overlaps *)
overlaps(anchor, old_range, new_range) ==
    RangeOverlaps(anchor.old_range, old_range)
    \/ RangeOverlaps(anchor.new_range, new_range)

(* Mutant of matches: overlapping ranges are taken for a match. *)
matches_overlapping(anchor, old_range, new_range) ==
    overlaps(anchor, old_range, new_range)

(* LineAnchor::matches *)
matches(anchor, old_range, new_range) ==
    anchor.old_range = old_range /\ anchor.new_range = new_range

(* self.annotations.remove(file_path) *)
RemoveKey(anns, file_path) == [p \in (DOMAIN anns) \ {file_path} |-> anns[p]]

(* Vec::remove(pos), pos 0-based *)
RemoveAt(v, pos) == SubSeq(v, 1, pos) \o SubSeq(v, pos + 2, Len(v))

(* AnnotationState::delete_at *)
delete_at(anns, file_path, old_range, new_range) ==
    IF file_path \in DOMAIN anns
    THEN LET kept == SelectSeq(anns[file_path],
                               LAMBDA a : ~overlaps(a.anchor, old_range,
                                                    new_range))
         IN  IF kept = <<>> THEN RemoveKey(anns, file_path)
             ELSE [anns EXCEPT ![file_path] = kept]
    ELSE anns

(* self.annotations.values().flat_map(|v| v.iter()): BTreeMap key order *)
FlatValues(anns) ==
    LET keys == SelectSeq(PathOrder, LAMBDA p : p \in DOMAIN anns)
    IN  Flatten([k \in 1..Len(keys) |-> anns[keys[k]]])

(* the sort key (&a.anchor.file_path, a.anchor.sort_line()), compared *)
KeyLess(a, b) ==
    \/ PathRank(a.anchor.file_path) < PathRank(b.anchor.file_path)
    \/ /\ a.anchor.file_path = b.anchor.file_path
       /\ sort_line(a.anchor) < sort_line(b.anchor)

(* sort_by_key is a stable sort: equal keys keep their order *)
RECURSIVE InsertSorted(_, _)
InsertSorted(sorted, a) ==
    IF sorted = <<>> THEN <<a>>
    ELSE IF KeyLess(a, Head(sorted)) THEN <<a>> \o sorted
    ELSE <<Head(sorted)>> \o InsertSorted(Tail(sorted), a)

RECURSIVE SortByKey(_)
SortByKey(v) ==
    IF v = <<>> THEN <<>>
    ELSE InsertSorted(SortByKey(SubSeq(v, 1, Len(v) - 1)), v[Len(v)])

(* AnnotationState::all_sorted *)
all_sorted(anns) == SortByKey(FlatValues(anns))

(* Mutant of annotations_overlapping: only the first hit is returned. *)
annotations_overlapping_first(anns, file_path, old_lineno, new_lineno) ==
    IF file_path \in DOMAIN anns
    THEN LET hits == SelectSeq(anns[file_path],
                               LAMBDA a : covers(a.anchor, old_lineno,
                                                 new_lineno))
         IN  IF hits = <<>> THEN <<>> ELSE <<Head(hits)>>
    ELSE <<>>

(* AnnotationState::annotations_overlapping *)
annotations_overlapping(anns, file_path, old_lineno, new_lineno) ==
    IF file_path \in DOMAIN anns
    THEN SelectSeq(anns[file_path],
                   LAMBDA a : covers(a.anchor, old_lineno, new_lineno))
    ELSE <<>>

(* anns.iter().position(|a| a.anchor.matches(..) && a.comment == comment), *)
(* as an Option of the 0-based index                                       *)
MatchPosition(v, old_range, new_range, comment) ==
    LET hits == {k \in 1..Len(v) : /\ matches(v[k].anchor, old_range, new_range)
                                   /\ v[k].comment = comment}
    IN  IF hits = {} THEN None
        ELSE Some((CHOOSE k \in hits : \A j \in hits : k <= j) - 1)

(* AnnotationState::delete_annotation *)
delete_annotation(anns, file_path, old_range, new_range, comment) ==
    IF file_path \in DOMAIN anns
    THEN LET pos == MatchPosition(anns[file_path], old_range, new_range,
                                  comment)
             v == IF IsSome(pos) THEN RemoveAt(anns[file_path], Unwrap(pos))
                  ELSE anns[file_path]
         IN  IF v = <<>> THEN RemoveKey(anns, file_path)
             ELSE [anns EXCEPT ![file_path] = v]
    ELSE anns

(* Mutant of update_comment: every match gets the new comment. *)
update_comment_all(anns, file_path, old_range, new_range, old_comment, new_comment) ==
    IF file_path \in DOMAIN anns
    THEN [anns EXCEPT ![file_path] =
            [k \in 1..Len(@) |->
                IF matches(@[k].anchor, old_range, new_range)
                   /\ @[k].comment = old_comment
                THEN [@[k] EXCEPT !.comment = new_comment]
                ELSE @[k]]]
    ELSE anns

(* AnnotationState::update_comment *)
update_comment(anns, file_path, old_range, new_range, old_comment, new_comment) ==
    IF file_path \in DOMAIN anns
    THEN LET pos == MatchPosition(anns[file_path], old_range, new_range,
                                  old_comment)
         IN  IF IsSome(pos)
             THEN [anns EXCEPT ![file_path][Unwrap(pos) + 1].comment =
                     new_comment]
             ELSE anns
    ELSE anns

(* is ann after (file_path, lineno)? *)
IsAfter(ann, file_path, lineno) ==
    \/ PathRank(ann.anchor.file_path) > PathRank(file_path)
    \/ /\ ann.anchor.file_path = file_path
       /\ sort_line(ann.anchor) > lineno

(* is ann before (file_path, lineno)? *)
IsBefore(ann, file_path, lineno) ==
    \/ PathRank(ann.anchor.file_path) < PathRank(file_path)
    \/ /\ ann.anchor.file_path = file_path
       /\ sort_line(ann.anchor) < lineno

(* (a.anchor.file_path.as_str(), a.anchor.sort_line()) *)
NavTarget(ann) == <<ann.anchor.file_path, sort_line(ann.anchor)>>

(* Mutant of next_after: no wrap-around. *)
next_after_no_wrap(anns, file_path, lineno) ==
    LET sorted == all_sorted(anns)
        hits == {k \in 1..Len(sorted) : IsAfter(sorted[k], file_path, lineno)}
    IN  IF hits # {}
        THEN Some(NavTarget(sorted[CHOOSE k \in hits : \A j \in hits : k <= j]))
        ELSE None

(* AnnotationState::next_after *)
next_after(anns, file_path, lineno) ==
    LET sorted == all_sorted(anns)
        hits == {k \in 1..Len(sorted) : IsAfter(sorted[k], file_path, lineno)}
    IN  IF hits # {}
        THEN Some(NavTarget(sorted[CHOOSE k \in hits : \A j \in hits : k <= j]))
        ELSE IF sorted = <<>> THEN None
        ELSE Some(NavTarget(sorted[1]))

(* Mutant of prev_before: the scan runs forward instead of in reverse. *)
prev_before_forward(anns, file_path, lineno) ==
    LET sorted == all_sorted(anns)
        hits == {k \in 1..Len(sorted) : IsBefore(sorted[k], file_path, lineno)}
    IN  IF hits # {}
        THEN Some(NavTarget(sorted[CHOOSE k \in hits : \A j \in hits : k <= j]))
        ELSE IF sorted = <<>> THEN None
        ELSE Some(NavTarget(sorted[Len(sorted)]))

(* AnnotationState::prev_before *)
prev_before(anns, file_path, lineno) ==
    LET sorted == all_sorted(anns)
        hits == {k \in 1..Len(sorted) : IsBefore(sorted[k], file_path, lineno)}
    IN  IF hits # {}
        THEN Some(NavTarget(sorted[CHOOSE k \in hits : \A j \in hits : k >= j]))
        ELSE IF sorted = <<>> THEN None
        ELSE Some(NavTarget(sorted[Len(sorted)]))

(* Arguments the session hands to the store. *)
StorePaths == {"a.rs", "b.rs"}

StoreRanges ==
    { <<None, Some(<<2, 3>>)>>, <<Some(<<1, 2>>), None>>,
      <<Some(<<1, 1>>), Some(<<3, 3>>)>> }

Comments == {"c", "d"}

(* chrono::Utc::now(): a reading later than every stored created_at *)
Now(anns) ==
    LET all == FlatValues(anns)
        stamps == {all[k].created_at : k \in 1..Len(all)}
    IN  IF stamps = {} THEN 1
        ELSE 1 + (CHOOSE t \in stamps : \A u \in stamps : t >= u)

(* Action::ConfirmComment, new annotation: annotations.add(Annotation {..}) *)
StoreAdd ==
    /\ Now(annotations) <= MaxClock
    /\ \E p \in StorePaths, r \in StoreRanges, c \in Comments :
          annotations' = add(annotations,
                             [anchor |-> [file_path |-> p, old_range |-> r[1],
                                          new_range |-> r[2]],
                              comment |-> c,
                              created_at |-> Now(annotations)])
    /\ frame' = NoFrame
    /\ UNCHANGED <<delta, view_mode, display_context, gap_expansions,
                   pane_width, viewport_height, scroll_offset, cursor_row,
                   selection, comment_editor_open, app_vars>>

(* Action::AnnotationMenuDelete: annotations.delete_annotation(..) *)
AnnotationMenuDelete ==
    /\ \E p \in StorePaths, r \in StoreRanges, c \in Comments :
          annotations' = delete_annotation(annotations, p, r[1], r[2], c)
    /\ frame' = NoFrame
    /\ UNCHANGED <<delta, view_mode, display_context, gap_expansions,
                   pane_width, viewport_height, scroll_offset, cursor_row,
                   selection, comment_editor_open, app_vars>>

(* Action::ConfirmComment, editing: annotations.update_comment(..) *)
EditComment ==
    /\ \E p \in StorePaths, r \in StoreRanges, c \in Comments, n \in Comments :
          annotations' = update_comment(annotations, p, r[1], r[2], c, n)
    /\ frame' = NoFrame
    /\ UNCHANGED <<delta, view_mode, display_context, gap_expansions,
                   pane_width, viewport_height, scroll_offset, cursor_row,
                   selection, comment_editor_open, app_vars>>

(* Action::DeleteAnnotation: annotations.delete_at(..) *)
DeleteAnnotation ==
    /\ \E p \in StorePaths, r \in StoreRanges :
          annotations' = delete_at(annotations, p, r[1], r[2])
    /\ frame' = NoFrame
    /\ UNCHANGED <<delta, view_mode, display_context, gap_expansions,
                   pane_width, viewport_height, scroll_offset, cursor_row,
                   selection, comment_editor_open, app_vars>>

----------------------------------------------------------------------------
(* Specifications.                                                         *)

(* Layout inputs drawn from the bounded sets; viewport wide enough that    *)
(* no row wraps.                                                           *)
InitLayout ==
    /\ delta \in LayoutDeltas
    /\ view_mode \in Modes
    /\ display_context \in 0..MaxCtx
    /\ gap_expansions \in ExpMaps
    /\ pane_width = 80
    /\ viewport_height = 20
    /\ scroll_offset = 0
    /\ cursor_row = 0
    /\ annotations = EmptyAnnotations
    /\ frame = NoFrame
    /\ selection = NoSelection
    /\ comment_editor_open = FALSE
    /\ AppIdle

NextLayout == Draw \/ ToggleViewMode \/ SettingsLeft \/ SettingsRight

SpecLayout == InitLayout /\ [][NextLayout]_vars

(* Wrapping inputs: narrow panes, scrolling, resizing. *)
InitWrap ==
    /\ delta \in WrapDeltas
    /\ view_mode \in Modes
    /\ display_context = DefaultDisplayContext
    /\ gap_expansions = <<>>
    /\ pane_width \in Widths
    /\ viewport_height \in 0..MaxHeight
    /\ scroll_offset = 0
    /\ cursor_row = 0
    /\ annotations = EmptyAnnotations
    /\ frame = NoFrame
    /\ selection = NoSelection
    /\ comment_editor_open = FALSE
    /\ AppIdle

NextWrap == Draw \/ Resize \/ ScrollUp \/ ScrollDown \/ ToggleViewMode

SpecWrap == InitWrap /\ [][NextWrap]_vars

(* Annotation inputs: anchors added to the store of one small delta. *)
InitAnn ==
    /\ delta = MkDelta(<< <<"Context", "Deletion", "Addition">> >>, <<1>>, 0)
    /\ view_mode \in Modes
    /\ display_context = DefaultDisplayContext
    /\ gap_expansions = <<>>
    /\ pane_width = 80
    /\ viewport_height = 20
    /\ scroll_offset = 0
    /\ cursor_row = 0
    /\ annotations = EmptyAnnotations
    /\ frame = NoFrame
    /\ selection = NoSelection
    /\ comment_editor_open = FALSE
    /\ AppIdle

NextAnn == AnnotationAdd \/ Draw

SpecAnn == InitAnn /\ [][NextAnn]_vars

(* A session that changes the context window and expands gaps, with the   *)
(* annotations of the saved session loaded (session::load_session).        *)
AnchorDeltas ==
    { MkDelta(<< Ctx(2) \o <<"Deletion">> \o Ctx(5) \o <<"Deletion">> >>,
              <<1>>, 0) }

LoadedAnnotation(o, n) ==
    [anchor |-> [file_path |-> "a.rs", old_range |-> o, new_range |-> n],
     comment |-> "c", created_at |-> "t"]

LoadedStores ==
    { EmptyAnnotations,
      "a.rs" :> <<LoadedAnnotation(None, Some(<<2, 4>>))>>,
      "a.rs" :> <<LoadedAnnotation(Some(<<3, 3>>), None),
                  LoadedAnnotation(Some(<<6, 7>>), Some(<<5, 6>>))>> }

InitAnchor ==
    /\ delta \in AnchorDeltas
    /\ view_mode \in Modes
    /\ display_context \in 1..MaxCtx
    /\ gap_expansions = <<>>
    /\ pane_width = 80
    /\ viewport_height = 20
    /\ scroll_offset = 0
    /\ cursor_row = 0
    /\ annotations \in LoadedStores
    /\ frame = NoFrame
    /\ selection = NoSelection
    /\ comment_editor_open = FALSE
    /\ AppIdle

NextAnchor ==
    ScrollUp \/ ScrollDown \/ ExpandContext \/ SettingsLeft \/ SettingsRight

SpecAnchor == InitAnchor /\ [][NextAnchor]_vars

(* A session that selects rows and comments on them. *)
SessionDeltas ==
    { MkDelta(<< <<"Deletion", "Deletion", "Addition">> \o Ctx(3) >>,
              <<1>>, 0) }

InitSession ==
    /\ delta \in SessionDeltas
    /\ view_mode \in Modes
    /\ display_context \in 1..MaxCtx
    /\ gap_expansions = <<>>
    /\ pane_width = 80
    /\ viewport_height = 20
    /\ scroll_offset = 0
    /\ cursor_row = 0
    /\ annotations = EmptyAnnotations
    /\ frame = NoFrame
    /\ selection = NoSelection
    /\ comment_editor_open = FALSE
    /\ AppIdle

NextSession ==
    \/ ScrollUp \/ ScrollDown \/ ExpandContext \/ SettingsLeft \/ SettingsRight
    \/ EnterVisualMode \/ ExtendSelectionUp \/ ExtendSelectionDown
    \/ OpenCommentEditor \/ ConfirmComment

SpecSession == InitSession /\ [][NextSession]_vars

(* The annotation store driven through its operations. *)
InitStore ==
    /\ delta = MkDelta(<< <<"Context", "Deletion", "Addition">> >>, <<1>>, 0)
    /\ view_mode = "Split"
    /\ display_context = DefaultDisplayContext
    /\ gap_expansions = <<>>
    /\ pane_width = 80
    /\ viewport_height = 20
    /\ scroll_offset = 0
    /\ cursor_row = 0
    /\ annotations = EmptyAnnotations
    /\ frame = NoFrame
    /\ selection = NoSelection
    /\ comment_editor_open = FALSE
    /\ AppIdle

NextStore == StoreAdd \/ AnnotationMenuDelete \/ EditComment \/ DeleteAnnotation

SpecStore == InitStore /\ [][NextStore]_vars

----------------------------------------------------------------------------
(* Properties of the gap filter.                                           *)

(* gap_id_offset handed to filter_hunk_lines for the hunk after the first  *)
(* n hunks (the threading in build_*_display_map).                         *)
RECURSIVE HunkGapOffset(_, _, _, _)
HunkGapOffset(hunks, n, dc, ge) ==
    IF n = 0 THEN 0
    ELSE filter_hunk_lines(hunks[n].lines, dc, ge,
                           HunkGapOffset(hunks, n - 1, dc, ge)).gap_id

(* The loop iterations of filter_hunk_lines on hunk h (1-based) of the     *)
(* current delta under expansion map ge.                                   *)
HunkSegments(h, ge) ==
    FilterLoop(delta.hunks[h].lines, 0, display_context, ge,
               HunkGapOffset(delta.hunks, h - 1, display_context, ge))

HunkRange == 1..Len(delta.hunks)

PlainCount(seg) ==
    Cardinality({k \in 1..Len(seg.items) : seg.items[k].kind = "Line"})

IndicatorsOf(seg) ==
    {k \in 1..Len(seg.items) : seg.items[k].kind = "CollapsedIndicator"}

RunLength(seg) == seg.run_end - seg.run_start

RunConserved(lines, seg) ==
    IF IndicatorsOf(seg) # {}
    THEN /\ \A k \in IndicatorsOf(seg) :
               PlainCount(seg) + seg.items[k].hidden_count = RunLength(seg)
         /\ \A k \in 1..Len(seg.items) :
               seg.items[k].kind = "Line" =>
                  /\ seg.items[k].hunk_line_index >= seg.run_start
                  /\ seg.items[k].hunk_line_index < seg.run_end
    ELSE seg.items = LineItems(lines, seg.run_start, seg.run_end)

(* C1: Conservation.  For every context run processed by                  *)
(* filter_hunk_lines: if an indicator is emitted for the run, the number   *)
(* of the run's lines emitted plainly plus each indicator's hidden_count   *)
(* equals the run length; with no indicator all lines of the run are       *)
(* emitted.                                                                *)
C1_Conservation ==
    \A h \in HunkRange :
       LET segs == HunkSegments(h, gap_expansions)
       IN  \A k \in 1..Len(segs) :
              segs[k].is_run => RunConserved(delta.hunks[h].lines, segs[k])

(* A drawn layout with a two-sided gap that is partly expanded: plain      *)
(* lines on both sides of two indicators that still hide something.        *)
C1_Witness ==
    /\ frame # NoFrame
    /\ \E h \in HunkRange :
          LET segs == HunkSegments(h, gap_expansions)
          IN  \E k \in 1..Len(segs) :
                 /\ segs[k].is_run
                 /\ Cardinality(IndicatorsOf(segs[k])) = 2
                 /\ PlainCount(segs[k]) >= 2
                 /\ GetOr0(gap_expansions, segs[k].gap_id_in) > 0

(* show_top + show_bottom of a run as the expansion map defines it *)
TotalShow(lines, seg, ge) ==
    LET before == seg.run_start > 0
        after == seg.run_end < Len(lines)
    IN  IF before /\ after
        THEN 2 * display_context + GetOr0(ge, seg.gap_id_in)
               + GetOr0(ge, seg.gap_id_in + 1)
        ELSE (IF before \/ after THEN display_context ELSE 0)
               + GetOr0(ge, seg.gap_id_in)

Baseline(lines, seg) ==
    (IF seg.run_start > 0 THEN display_context ELSE 0)
      + (IF seg.run_end < Len(lines) THEN display_context ELSE 0)

TwoSided(lines, seg) == seg.run_start > 0 /\ seg.run_end < Len(lines)

(* C3: Gap-id positional stability.  For a fixed delta and context window  *)
(* the counter value before and after every loop iteration, the value      *)
(* filter_hunk_lines returns, and the gap_id of every emitted indicator    *)
(* of a given run and direction are the same under the current expansion   *)
(* map as under the empty map, hence the same under every expansion map.   *)
(* A run that exceeds its baseline advances the counter by 2 when it lies  *)
(* between two changes and by 1 otherwise, whether or not an indicator is  *)
(* emitted for it; a run within its baseline consumes no id.               *)
C3_GapIdStability ==
    \A h \in HunkRange :
       LET lines == delta.hunks[h].lines
           s1 == HunkSegments(h, gap_expansions)
           s2 == HunkSegments(h, <<>>)
       IN  /\ Len(s1) = Len(s2)
           /\ \A k \in 1..Len(s1) :
                 /\ s1[k].gap_id_in = s2[k].gap_id_in
                 /\ s1[k].gap_id = s2[k].gap_id
                 /\ s1[k].is_run =>
                       s1[k].gap_id - s1[k].gap_id_in
                         = IF Baseline(lines, s1[k]) >= RunLength(s1[k]) THEN 0
                           ELSE IF TwoSided(lines, s1[k]) THEN 2 ELSE 1
                 /\ \A i \in IndicatorsOf(s1[k]), j \in IndicatorsOf(s2[k]) :
                       s1[k].items[i].direction = s2[k].items[j].direction
                       => s1[k].items[i].gap_id = s2[k].items[j].gap_id
           /\ HunkGapOffset(delta.hunks, h, display_context, gap_expansions)
                = HunkGapOffset(delta.hunks, h, display_context, <<>>)

(* A drawn layout where one gap has been expanded until it closed (no      *)
(* indicator left for it) and a later run still shows an indicator.        *)
C3_Witness ==
    /\ frame # NoFrame
    /\ \E h \in HunkRange :
          LET segs == HunkSegments(h, gap_expansions)
          IN  \E k1, k2 \in 1..Len(segs) :
                 /\ k1 < k2
                 /\ segs[k1].is_run
                 /\ segs[k1].gap_id > segs[k1].gap_id_in
                 /\ IndicatorsOf(segs[k1]) = {}
                 /\ IndicatorsOf(segs[k2]) # {}

(* C4: Gap closure.  A context run that is collapsed at the current        *)
(* window, once the recorded expansions make show_top + show_bottom >= R,  *)
(* is emitted with no indicator and all R lines in their original order.   *)
C4_GapClosure ==
    \A h \in HunkRange :
       LET lines == delta.hunks[h].lines
           segs == HunkSegments(h, gap_expansions)
       IN  \A k \in 1..Len(segs) :
              ( /\ segs[k].is_run
                /\ Baseline(lines, segs[k]) < RunLength(segs[k])
                /\ TotalShow(lines, segs[k], gap_expansions)
                     >= RunLength(segs[k]) )
              => segs[k].items
                   = LineItems(lines, segs[k].run_start, segs[k].run_end)

(* The run of 10 context lines between two changes at window 3 (4 hidden)  *)
(* with a top-side expansion of 4, drawn: no indicator row remains.        *)
C4_Witness ==
    /\ frame # NoFrame
    /\ display_context = 3
    /\ gap_expansions = (0 :> 4)
    /\ Len(delta.hunks) = 1
    /\ Len(delta.hunks[1].lines) = 12
    /\ \A k \in 1..Len(current_display_map) :
          ~current_display_map[k].is_collapsed_indicator
    /\ LET segs == HunkSegments(1, <<>>)
       IN  \E k \in 1..Len(segs) :
              /\ RunLength(segs[k]) = 10
              /\ \E i \in IndicatorsOf(segs[k]) :
                    segs[k].items[i].hidden_count = 4

----------------------------------------------------------------------------
(* Properties of the split layout.                                         *)

RECURSIVE OriginRunEnd(_, _, _)
OriginRunEnd(lines, i, origin) ==
    IF i < Len(lines) /\ lines[i + 1].origin = origin
    THEN OriginRunEnd(lines, i + 1, origin)
    ELSE i

(* 0-based start indices of the maximal Deletion blocks of a hunk *)
DeletionBlockStarts(lines) ==
    {p \in 0..(Len(lines) - 1) :
        /\ lines[p + 1].origin = "Deletion"
        /\ (p = 0 \/ lines[p].origin # "Deletion")}

SetMin(S) == CHOOSE x \in S : \A y \in S : x <= y

(* Rows and rendered lines of the block of hunk h that starts at line p. *)
BlockPaired(h, p, rows, core) ==
    LET lines == delta.hunks[h].lines
        dend == OriginRunEnd(lines, p, "Deletion")
        aend == OriginRunEnd(lines, dend, "Addition")
        d == dend - p
        a == aend - dend
        idxs == {r \in 1..Len(rows) :
                    /\ rows[r].hunk_index = h - 1
                    /\ IsSome(rows[r].line_index)
                    /\ Unwrap(rows[r].line_index) >= p
                    /\ Unwrap(rows[r].line_index) < aend}
    IN  /\ Cardinality(idxs) = Max(d, a)
        /\ \A j \in 0..(Max(d, a) - 1) :
              LET r == SetMin(idxs) + j
              IN  /\ r \in idxs
                  /\ rows[r].old_lineno
                       = IF j < d THEN lines[p + j + 1].old_lineno ELSE None
                  /\ rows[r].new_lineno
                       = IF j < a THEN lines[dend + j + 1].new_lineno ELSE None
                  /\ r <= Len(core.left) /\ r <= Len(core.right)
                  /\ IF j < d
                     THEN core.left[r][1].content
                            = format_lineno(lines[p + j + 1].old_lineno,
                                            GutterWidth) \o <<" ">>
                     ELSE core.left[r]
                            = make_empty_line(GutterWidth, row_highlight(r - 1))
                  /\ IF j < a
                     THEN core.right[r][1].content
                            = format_lineno(lines[dend + j + 1].new_lineno,
                                            GutterWidth) \o <<" ">>
                     ELSE core.right[r]
                            = make_empty_line(GutterWidth, row_highlight(r - 1))

SplitCore ==
    build_split_lines_core(delta, display_context, gap_expansions, annotations,
                           current_display_map)

(* C5: Pairing.  In Split mode a maximal block of d Deletion lines         *)
(* followed by a maximal block of a Addition lines produces exactly        *)
(* max(d, a) rows; row j carries deletion j's old line number on the left  *)
(* when j < d and addition j's new line number on the right when j < a,    *)
(* and the exhausted side is blank padding.                                *)
C5_Pairing ==
    view_mode = "Split" =>
       \A h \in HunkRange :
          \A p \in DeletionBlockStarts(delta.hunks[h].lines) :
             BlockPaired(h, p, current_display_map, SplitCore)

(* A drawn split layout of a block with 2 deletions and 1 addition. *)
C5_Witness ==
    /\ frame # NoFrame
    /\ view_mode = "Split"
    /\ \E h \in HunkRange :
          LET lines == delta.hunks[h].lines
          IN  \E p \in DeletionBlockStarts(lines) :
                 /\ OriginRunEnd(lines, p, "Deletion") = p + 2
                 /\ OriginRunEnd(lines, p + 2, "Addition") = p + 3

(* C6: Dual-pane symmetry.  In Split mode the left and right line          *)
(* sequences have equal length.                                            *)
C6_DualPaneSymmetry ==
    view_mode = "Split" => Len(SplitCore.left) = Len(SplitCore.right)

(* A drawn split layout with a block of more deletions than additions,     *)
(* a collapsed indicator and a header.                                     *)
C6_Witness ==
    /\ frame # NoFrame
    /\ view_mode = "Split"
    /\ \E k \in 1..Len(current_display_map) :
          current_display_map[k].is_collapsed_indicator
    /\ \E h \in HunkRange :
          LET lines == delta.hunks[h].lines
          IN  \E p \in DeletionBlockStarts(lines) :
                 OriginRunEnd(lines, OriginRunEnd(lines, p, "Deletion"),
                              "Addition")
                   < 2 * OriginRunEnd(lines, p, "Deletion") - p

----------------------------------------------------------------------------
(* Properties of the wrapper.                                              *)

UnifiedCore ==
    build_unified_lines_core(delta, display_context, gap_expansions,
                             annotations, current_display_map)

Wrapped(lines, gutter_width) ==
    [k \in 1..Len(lines) |->
        wrap_single_line_for_display(lines[k], pane_width, gutter_width, TRUE)]

(* a row's visual rows followed by blank rows up to height h *)
PadTo(rows, h) == rows \o Repeat(LineDefault, h - Len(rows))

(* the visual rows of every logical row of one pane, each padded to the    *)
(* greater of the two panes' heights                                       *)
Balanced(mine, other) ==
    Flatten([k \in 1..Len(mine) |->
               PadTo(mine[k], Max(Len(mine[k]), Len(other[k])))])

(* the visual rows at positions [s, s + H) *)
Window(rows, s, H) == SubSeq(rows, s + 1, Min(Len(rows), s + H))

Wrapping == pane_width > 0 /\ viewport_height > 0

(* C7: Height symmetry.  In Split mode with wrapping, the drawn left and   *)
(* right outputs have equal length for the scroll offset and viewport      *)
(* height in force, and with the window opened over the whole content each *)
(* logical row occupies max(left height, right height) visual rows on both *)
(* sides, the shorter side padded with blank rows.                         *)
C7_HeightSymmetry ==
    (view_mode = "Split" /\ frame # NoFrame) =>
       LET core == SplitCore
           lw == Wrapped(core.left, SplitGutterWidth)
           rw == Wrapped(core.right, SplitGutterWidth)
           total == Len(Balanced(lw, rw))
           whole == wrap_split_lines_synchronized_with_scroll(
                        core.left, core.right, pane_width, SplitGutterWidth,
                        TRUE, 0, total)
       IN  /\ Len(frame.left) = Len(frame.right)
           /\ (pane_width > 0 /\ total > 0) =>
                 /\ whole.left = Balanced(lw, rw)
                 /\ whole.right = Balanced(rw, lw)

(* A drawn split frame whose window starts inside a wrapped row and in     *)
(* which one side of a row had to be padded.                               *)
C7_Witness ==
    /\ view_mode = "Split" /\ frame # NoFrame /\ Wrapping
    /\ scroll_offset > 0
    /\ LET core == SplitCore
           lw == Wrapped(core.left, SplitGutterWidth)
           rw == Wrapped(core.right, SplitGutterWidth)
       IN  /\ \E k \in 1..Len(lw) : Len(lw[k]) # Len(rw[k])
           /\ \E k \in 1..Len(lw) :
                 LET before == SumSeq([j \in 1..(k - 1) |->
                                         Max(Len(lw[j]), Len(rw[j]))])
                 IN  /\ before < scroll_offset
                     /\ scroll_offset < before + Max(Len(lw[k]), Len(rw[k]))
    /\ Len(frame.left) > 0

CeilDiv(c, n) == (c + n - 1) \div n

(* number of content characters: the characters after the gutter span *)
ContentChars(line) ==
    SumSeq([k \in 1..(Len(line) - 1) |-> Len(line[k + 1].content)])

(* the logical rows the wrapper is handed, with the gutter width in force *)
WrapInputs ==
    IF view_mode = "Split"
    THEN {[line |-> l, g |-> SplitGutterWidth] :
             l \in {SplitCore.left[k] : k \in 1..Len(SplitCore.left)}
                   \cup {SplitCore.right[k] : k \in 1..Len(SplitCore.right)}}
    ELSE {[line |-> l, g |-> UnifiedGutterWidth] :
             l \in {UnifiedCore[k] : k \in 1..Len(UnifiedCore)}}

WrapMath(in, rows_expected) ==
    LET rows == wrap_single_line_for_display(in.line, pane_width, in.g, TRUE)
    IN  IF LineWidth(in.line) <= pane_width
        THEN rows = <<in.line>>
        ELSE Len(rows) = rows_expected

(* C8: Wrap math.  With wrapping enabled and w > g, a row whose rendered   *)
(* width is at most w comes back as one unchanged visual row; any other    *)
(* row comes back as max(1, ceil(c / (w - g))) visual rows, c the number   *)
(* of its content characters.                                              *)
C8_WrapMath ==
    \A in \in WrapInputs :
       pane_width > in.g =>
          WrapMath(in, Max(1, CeilDiv(ContentChars(in.line), pane_width - in.g)))

(* The statement without the floor of one row: ceil(c / (w - g)) rows.     *)
C8_WrapMathAsStated ==
    \A in \in WrapInputs :
       pane_width > in.g =>
          WrapMath(in, CeilDiv(ContentChars(in.line), pane_width - in.g))

(* A drawn frame with a row that fits, a row split in several, and a row   *)
(* with no content whose gutter alone is wider than the pane.              *)
C8_Witness ==
    /\ frame # NoFrame
    /\ \E in \in WrapInputs :
          pane_width > in.g /\ LineWidth(in.line) <= pane_width
    /\ \E in \in WrapInputs :
          /\ pane_width > in.g /\ LineWidth(in.line) > pane_width
          /\ ContentChars(in.line) > 2 * (pane_width - in.g)
    /\ \E in \in WrapInputs :
          /\ pane_width > in.g /\ LineWidth(in.line) > pane_width
          /\ ContentChars(in.line) = 0

(* C9: Scroll window.  The drawn rows are the visual rows at positions     *)
(* [s, s + H) of the concatenation of every logical row's visual rows:     *)
(* min(H, max(0, T - s)) rows, none when H = 0, nothing padded past the    *)
(* end of the content.                                                     *)
C9_ScrollWindow ==
    (frame # NoFrame /\ pane_width > 0) =>
       IF view_mode = "Split"
       THEN LET lw == Wrapped(SplitCore.left, SplitGutterWidth)
                rw == Wrapped(SplitCore.right, SplitGutterWidth)
                all == Balanced(lw, rw)
            IN  /\ frame.left = Window(all, scroll_offset, viewport_height)
                /\ frame.right = Window(Balanced(rw, lw), scroll_offset,
                                        viewport_height)
                /\ Len(frame.left)
                     = Min(viewport_height, Max(0, Len(all) - scroll_offset))
       ELSE LET all == Flatten(Wrapped(UnifiedCore, UnifiedGutterWidth))
            IN  /\ frame.left = Window(all, scroll_offset, viewport_height)
                /\ Len(frame.left)
                     = Min(viewport_height, Max(0, Len(all) - scroll_offset))

(* A drawn unified frame whose window starts inside a wrapped row and      *)
(* reaches the end of the content with fewer rows than the viewport holds. *)
C9_Witness ==
    /\ frame # NoFrame /\ view_mode = "Unified" /\ Wrapping
    /\ scroll_offset > 0
    /\ LET w == Wrapped(UnifiedCore, UnifiedGutterWidth)
       IN  /\ \E k \in 1..Len(w) :
                 LET before == SumSeq([j \in 1..(k - 1) |-> Len(w[j])])
                 IN  before < scroll_offset /\ scroll_offset < before + Len(w[k])
           /\ Len(frame.left) > 0
           /\ Len(frame.left) < viewport_height

----------------------------------------------------------------------------
(* Properties of the annotation store.                                     *)

LineNos == {None} \cup {Some(n) : n \in 0..(MaxLineNo + 1)}

InRange(range, lineno) ==
    /\ range # None
    /\ lineno # None
    /\ range[1][1] <= lineno[1]
    /\ lineno[1] <= range[1][2]

(* C10: covers(anchor, old, new) is true iff new is present and lies in    *)
(* the anchor's new-range, or old is present and lies in its old-range;    *)
(* false when both line numbers are absent or the anchor has no range.     *)
C10_Covers ==
    \A p \in DOMAIN annotations :
       \A k \in 1..Len(annotations[p]) :
          LET a == annotations[p][k].anchor
          IN  \A old \in LineNos, new \in LineNos :
                 covers(a, old, new)
                   <=> (InRange(a.new_range, new) \/ InRange(a.old_range, old))

(* The store holds an anchor with only an old-range that covers a row      *)
(* through its old line number alone, and the rows have been drawn.        *)
C10_Witness ==
    /\ frame # NoFrame
    /\ \E p \in DOMAIN annotations :
          \E k \in 1..Len(annotations[p]) :
             LET a == annotations[p][k].anchor
             IN  /\ a.new_range = None
                 /\ covers(a, Some(2), Some(1))
                 /\ ~covers(a, None, Some(1))

----------------------------------------------------------------------------
(* Properties of the session around the annotation store.                  *)

ProbePaths == {"a.rs", "b.rs", ""}

ProbeLineNos == {None} \cup {Some(n) : n \in 0..8}

(* C11: a step that changes the context window or the gap expansions       *)
(* leaves the stored annotations as they were, and has_annotation_at       *)
(* answers every (path, old, new) position as it did before the step.      *)
C11_AnchorStability ==
    [][(display_context' # display_context
        \/ gap_expansions' # gap_expansions)
       => /\ annotations' = annotations
          /\ \A p \in ProbePaths, old \in ProbeLineNos, new \in ProbeLineNos :
                has_annotation_at(annotations', p, old, new)
                  = has_annotation_at(annotations, p, old, new)]_vars

(* A gap was expanded and the context window then widened until no gap is  *)
(* left, and the loaded annotation on new lines 2-4 still covers new       *)
(* line 3.                                                                 *)
C11_Witness ==
    /\ gap_expansions # <<>>
    /\ display_context = 3
    /\ \E k \in 1..Len(current_display_map) :
          current_display_map[k].new_lineno = Some(3)
    /\ has_annotation_at(annotations, "a.rs", None, Some(3))
    /\ ~has_annotation_at(annotations, "a.rs", None, Some(5))

----------------------------------------------------------------------------
(* Properties of the store's operations, over every store its operations   *)
(* reach and every argument.                                               *)

(* the position (old, new) lies in the anchor, as the claims word it *)
Covered(anchor, old, new) ==
    InRange(anchor.new_range, new) \/ InRange(anchor.old_range, old)

StoredAt(anns, p) == IF p \in DOMAIN anns THEN anns[p] ELSE <<>>

Occurrences(v, a) == Cardinality({k \in 1..Len(v) : v[k] = a})

(* an annotation the session can hand to add *)
NewAnnotation(p, r, c) ==
    [anchor |-> [file_path |-> p, old_range |-> r[1], new_range |-> r[2]],
     comment |-> c, created_at |-> Now(annotations)]

(* line numbers below, inside and above every range of StoreRanges *)
ProbeLines == 0..4

StoreLineNos == {None} \cup {Some(n) : n \in ProbeLines}

(* C12: annotations_overlapping(path, old, new) returns exactly the        *)
(* annotations stored under path whose anchor covers the position, each    *)
(* once and in insertion order (increasing created_at), and nothing for a  *)
(* path with no annotations; add appends whatever it is given, also an     *)
(* anchor that is already stored.                                          *)
C12_Overlapping ==
    /\ \A p \in ProbePaths, old \in StoreLineNos, new \in StoreLineNos :
          LET res == annotations_overlapping(annotations, p, old, new)
              stored == StoredAt(annotations, p)
          IN  /\ \A k \in 1..Len(res) :
                    /\ Occurrences(stored, res[k]) = 1
                    /\ Covered(res[k].anchor, old, new)
              /\ \A k \in 1..Len(stored) :
                    Covered(stored[k].anchor, old, new)
                      => Occurrences(res, stored[k]) = 1
              /\ \A j, k \in 1..Len(res) :
                    j < k => res[j].created_at < res[k].created_at
              /\ p \notin DOMAIN annotations => res = <<>>
    /\ \A p \in StorePaths, r \in StoreRanges, c \in Comments :
          add(annotations, NewAnnotation(p, r, c))[p]
            = Append(StoredAt(annotations, p), NewAnnotation(p, r, c))

(* After a delete, the store holds two annotations with the same anchor    *)
(* under one path and a query on a covered line returns both; the other    *)
(* path is unknown to the store.                                           *)
C12_Witness ==
    /\ "a.rs" \in DOMAIN annotations
    /\ "b.rs" \notin DOMAIN annotations
    /\ Len(annotations["a.rs"]) = 2
    /\ annotations["a.rs"][1].anchor = annotations["a.rs"][2].anchor
    /\ annotations["a.rs"][1].created_at > 1
    /\ Len(annotations_overlapping(annotations, "a.rs", Some(2), Some(2))) = 2

(* representative line of an anchor: new-range start, else old-range start *)
RepLine(anchor) ==
    IF anchor.new_range # None THEN anchor.new_range[1][1]
    ELSE anchor.old_range[1][1]

(* the (file path, representative line) of every stored annotation *)
StoredKeys ==
    UNION {{<<p, RepLine(annotations[p][k].anchor)>> :
               k \in 1..Len(annotations[p])} : p \in DOMAIN annotations}

KeyBelow(a, b) ==
    \/ PathRank(a[1]) < PathRank(b[1])
    \/ (a[1] = b[1] /\ a[2] < b[2])

LeastKey(S) == CHOOSE x \in S : \A y \in S : x = y \/ KeyBelow(x, y)

GreatestKey(S) == CHOOSE x \in S : \A y \in S : x = y \/ KeyBelow(y, x)


(* C13: next_after(path, lineno) is the least stored (path, representative *)
(* line) strictly above (path, lineno); with none above it is the least    *)
(* of all; it is None exactly when the store is empty.                     *)
C13_NextAfter ==
    \A p \in ProbePaths, n \in ProbeLines :
       LET above == {x \in StoredKeys : KeyBelow(<<p, n>>, x)}
           res == next_after(annotations, p, n)
       IN  /\ (res = None) <=> (StoredKeys = {})
           /\ above # {} => res = Some(LeastKey(above))
           /\ (above = {} /\ StoredKeys # {})
                 => res = Some(LeastKey(StoredKeys))

(* Two files are annotated, the first file's annotations were added in     *)
(* descending line order, and asking at the last annotation of the         *)
(* ordering wraps around to the first.                                     *)
C13_Witness ==
    /\ DOMAIN annotations = {"a.rs", "b.rs"}
    /\ Len(annotations["a.rs"]) = 2
    /\ sort_line(annotations["a.rs"][1].anchor) = 3
    /\ sort_line(annotations["a.rs"][2].anchor) = 1
    /\ annotations["a.rs"][2].anchor.new_range = None
    /\ sort_line(annotations["b.rs"][1].anchor) = 2
    /\ next_after(annotations, "b.rs", 2) = Some(<<"a.rs", 1>>)
    /\ next_after(annotations, "a.rs", 1) = Some(<<"a.rs", 3>>)

(* C14: prev_before(path, lineno) is the greatest stored (path,            *)
(* representative line) strictly below (path, lineno); with none below it  *)
(* is the greatest of all; it is None exactly when the store is empty.     *)
C14_PrevBefore ==
    \A p \in ProbePaths, n \in ProbeLines :
       LET below == {x \in StoredKeys : KeyBelow(x, <<p, n>>)}
           res == prev_before(annotations, p, n)
       IN  /\ (res = None) <=> (StoredKeys = {})
           /\ below # {} => res = Some(GreatestKey(below))
           /\ (below = {} /\ StoredKeys # {})
                 => res = Some(GreatestKey(StoredKeys))

(* Two files are annotated, the second file's annotations were added in    *)
(* descending line order, and asking at the first annotation of the        *)
(* ordering wraps around to the last.                                      *)
C14_Witness ==
    /\ DOMAIN annotations = {"a.rs", "b.rs"}
    /\ Len(annotations["b.rs"]) = 2
    /\ sort_line(annotations["b.rs"][1].anchor) = 3
    /\ sort_line(annotations["b.rs"][2].anchor) = 2
    /\ sort_line(annotations["a.rs"][1].anchor) = 1
    /\ prev_before(annotations, "a.rs", 1) = Some(<<"b.rs", 3>>)
    /\ prev_before(annotations, "b.rs", 3) = Some(<<"b.rs", 2>>)

(* v without its k-th element *)
Without(v, k) ==
    [i \in 1..(Len(v) - 1) |-> IF i < k THEN v[i] ELSE v[i + 1]]

(* the stored annotations of path p with exactly these ranges and comment *)
ExactMatches(p, r, c) ==
    {k \in 1..Len(StoredAt(annotations, p)) :
        /\ annotations[p][k].anchor.old_range = r[1]
        /\ annotations[p][k].anchor.new_range = r[2]
        /\ annotations[p][k].comment = c}

(* C15: delete_annotation(path, old_range, new_range, comment) removes     *)
(* exactly one annotation of path whose ranges and comment equal the       *)
(* arguments and leaves every other annotation, under this and every       *)
(* other path, as it was and in place; with no such annotation the store   *)
(* is unchanged.                                                           *)
C15_DeleteExact ==
    \A p \in ProbePaths, r \in StoreRanges, c \in Comments :
       LET after == delete_annotation(annotations, p, r[1], r[2], c)
           hits == ExactMatches(p, r, c)
       IN  /\ hits = {} => after = annotations
           /\ hits # {} =>
                 \E k \in hits :
                    StoredAt(after, p) = Without(annotations[p], k)
           /\ \A q \in ProbePaths \ {p} :
                 StoredAt(after, q) = StoredAt(annotations, q)
           /\ \A q \in DOMAIN after : after[q] # <<>>

(* One path holds an annotation, a second one with the same ranges and     *)
(* another comment, and a third whose ranges only overlap; deleting the    *)
(* first by its ranges and comment leaves exactly the other two.           *)
C15_Witness ==
    /\ "a.rs" \in DOMAIN annotations
    /\ Len(annotations["a.rs"]) = 3
    /\ annotations["a.rs"][1].anchor = annotations["a.rs"][2].anchor
    /\ annotations["a.rs"][1].comment = "c"
    /\ annotations["a.rs"][2].comment = "d"
    /\ annotations["a.rs"][3].comment = "c"
    /\ annotations["a.rs"][1].anchor.old_range = Some(<<1, 1>>)
    /\ annotations["a.rs"][3].anchor.old_range = Some(<<1, 2>>)
    /\ delete_annotation(annotations, "a.rs", Some(<<1, 1>>),
                         Some(<<3, 3>>), "c")["a.rs"]
         = <<annotations["a.rs"][2], annotations["a.rs"][3]>>

(* every annotation of after that was already in before (same created_at)  *)
(* is under the same path with the same anchor                             *)
AnchorsKept(before, after) ==
    \A p \in DOMAIN after, q \in DOMAIN before :
       \A k \in 1..Len(after[p]), j \in 1..Len(before[q]) :
          after[p][k].created_at = before[q][j].created_at
            => (p = q /\ after[p][k].anchor = before[q][j].anchor)

(* C16: update_comment(path, old_range, new_range, old_comment,            *)
(* new_comment) replaces the comment of one annotation with exactly these  *)
(* ranges and old comment and changes nothing else: its anchor and         *)
(* created_at, the number and order of the annotations and every other     *)
(* annotation stay; with no match the store is unchanged.  No operation    *)
(* of the store changes the anchor of an annotation that it keeps.         *)
C16_UpdateCommentOnly ==
    /\ \A p \in ProbePaths, r \in StoreRanges, c \in Comments, n \in Comments :
          LET after == update_comment(annotations, p, r[1], r[2], c, n)
              hits == ExactMatches(p, r, c)
          IN  /\ hits = {} => after = annotations
              /\ DOMAIN after = DOMAIN annotations
              /\ \A q \in DOMAIN annotations :
                    Len(after[q]) = Len(annotations[q])
              /\ hits # {} =>
                    \E h \in hits :
                       \A q \in DOMAIN annotations :
                          \A j \in 1..Len(annotations[q]) :
                             after[q][j] =
                                IF q = p /\ j = h
                                THEN [anchor |-> annotations[q][j].anchor,
                                      comment |-> n,
                                      created_at |-> annotations[q][j].created_at]
                                ELSE annotations[q][j]
              /\ AnchorsKept(annotations, after)
    /\ \A p \in StorePaths, r \in StoreRanges, c \in Comments :
          /\ AnchorsKept(annotations,
                         IF Now(annotations) <= MaxClock
                         THEN add(annotations, NewAnnotation(p, r, c))
                         ELSE annotations)
          /\ AnchorsKept(annotations,
                         delete_annotation(annotations, p, r[1], r[2], c))
          /\ AnchorsKept(annotations, delete_at(annotations, p, r[1], r[2]))

(* One path holds two annotations with the same ranges and the same        *)
(* comment and a third with other ranges; updating by those ranges and     *)
(* that comment rewrites the comment of the first only.                    *)
C16_Witness ==
    /\ "b.rs" \in DOMAIN annotations
    /\ Len(annotations["b.rs"]) = 3
    /\ annotations["b.rs"][1].anchor = annotations["b.rs"][2].anchor
    /\ annotations["b.rs"][1].anchor # annotations["b.rs"][3].anchor
    /\ \A k \in 1..3 : annotations["b.rs"][k].comment = "c"
    /\ LET a == annotations["b.rs"][1].anchor
           after == update_comment(annotations, "b.rs", a.old_range,
                                   a.new_range, "c", "d")
       IN  /\ after["b.rs"][1].comment = "d"
           /\ after["b.rs"][2] = annotations["b.rs"][2]
           /\ after["b.rs"][3] = annotations["b.rs"][3]

(* The keys consumed by the context runs of hunks[hunk_idx..] in           *)
(* filter_hunk_lines, each with the run that consumes it.                  *)
RECURSIVE GapRuns(_, _, _, _, _)
GapRuns(hunks, hunk_idx, dc, ge, gap_id_offset) ==
    IF hunk_idx >= Len(hunks) THEN {}
    ELSE LET segs == FilterLoop(hunks[hunk_idx + 1].lines, 0, dc, ge,
                                gap_id_offset)
             next == IF segs = <<>> THEN gap_id_offset
                     ELSE segs[Len(segs)].gap_id
         IN  UNION { { [key |-> k, hunk_index |-> hunk_idx,
                        run_start |-> segs[n].run_start,
                        run_end |-> segs[n].run_end] :
                       k \in segs[n].gap_id_in..(segs[n].gap_id - 1) } :
                     n \in 1..Len(segs) }
             \cup GapRuns(hunks, hunk_idx + 1, dc, ge, next)

(* (hunk, line) of the content rows of a display map *)
ShownLines(display_map) ==
    { <<display_map[k].hunk_index, Unwrap(display_map[k].line_index)>> :
        k \in { j \in 1..Len(display_map) :
                  IsSome(display_map[j].line_index) } }

(* the lines that the amount recorded under key reveals: shown with it,    *)
(* hidden when the key is taken out of the map                             *)
RevealedBy(d, mode, dc, ge, key) ==
    ShownLines(build_display_map(d, mode, dc, ge))
      \ ShownLines(build_display_map(d, mode, dc, RemoveKey(ge, key)))

(* C17: recorded expansion amounts keep applying to the same gap while     *)
(* the hunk structure and the context window are unchanged, and after a    *)
(* change of the context window a key recorded for one gap never reveals   *)
(* lines of a different gap: on every step, the lines a previously         *)
(* recorded key reveals in the new layout lie in the context run that      *)
(* consumed the key in the old layout.                                     *)
C17_KeysStayWithTheirGap ==
    [][\A key \in DOMAIN gap_expansions :
          \A g \in { r \in GapRuns(delta.hunks, 0, display_context,
                                   gap_expansions, 0) : r.key = key } :
             \A l \in RevealedBy(delta', view_mode', display_context',
                                 gap_expansions', key) :
                /\ l[1] = g.hunk_index
                /\ g.run_start <= l[2]
                /\ l[2] < g.run_end]_vars

(* indices of the rows of display_map that belong to hunk hunk_idx *)
RowsOfHunk(display_map, hunk_idx) ==
    { k \in 1..Len(display_map) : display_map[k].hunk_index = hunk_idx }

(* C18: build_display_map is defined on a delta with no hunks and on hunks *)
(* with no lines, in either view mode and for any context window and       *)
(* expansion map: a delta with no hunks gives the empty row sequence, and  *)
(* a hunk with no lines gives exactly one row, its header.                 *)
C18_EmptyInput ==
    \A mode \in Modes :
       \E m \in {build_display_map(delta, mode, display_context,
                                   gap_expansions)} :
          /\ delta.hunks = <<>> => m = <<>>
          /\ \A h \in 1..Len(delta.hunks) :
                delta.hunks[h].lines = <<>> =>
                   /\ Cardinality(RowsOfHunk(m, h - 1)) = 1
                   /\ \A k \in RowsOfHunk(m, h - 1) :
                         /\ m[k].is_header
                         /\ ~m[k].is_collapsed_indicator
                         /\ m[k].line_index = None
                         /\ m[k].gap_id = None
          /\ (\A h \in 1..Len(delta.hunks) : delta.hunks[h].lines = <<>>)
                => Len(m) = Len(delta.hunks)

(* C18 as stated: the row sequence is empty for a delta with no hunks and  *)
(* for a delta whose hunks have no lines.                                  *)
C18_EmptyInputAsStated ==
    \A mode \in Modes :
       (\A h \in 1..Len(delta.hunks) : delta.hunks[h].lines = <<>>)
          => build_display_map(delta, mode, display_context,
                               gap_expansions) = <<>>

(* A frame was drawn in single-pane mode for a delta whose first hunk has  *)
(* no lines, under a non-zero expansion map: the hunk shows its header     *)
(* only, followed by the rows of the second hunk.                          *)
C18_Witness ==
    /\ frame # NoFrame
    /\ view_mode = "Unified"
    /\ Len(delta.hunks) = 2
    /\ delta.hunks[1].lines = <<>>
    /\ \E k \in DOMAIN gap_expansions : gap_expansions[k] > 0
    /\ current_display_map[1].is_header
    /\ current_display_map[2].is_header
    /\ current_display_map[2].hunk_index = 1

(* a selection over the rows lo..hi *)
Rows(lo, hi) == [active |-> TRUE, anchor |-> lo, cursor |-> hi]

(* C19: an index at or beyond the number of display rows is absorbed: the  *)
(* row lookup is absent, cursor_to_anchor returns no anchor, ExpandContext *)
(* leaves the expansion map as it is, and selection_to_anchor gives what   *)
(* the in-range part of the selection gives (the default anchor when no    *)
(* selected index is in range).                                            *)
C19_StaleIndices ==
    \E m \in {current_display_map} :
       /\ \A c \in {cursor_row, selection.anchor, selection.cursor}
                  \cup (Len(m)..(Len(m) + 1)) :
             c >= Len(m) =>
                /\ DisplayMapGet(m, c) = None
                /\ cursor_to_anchor(delta, m, c) = None
                /\ ExpandedGaps(gap_expansions, DisplayMapGet(m, c))
                     = gap_expansions
       /\ \A lo \in 0..(Len(m) + 1), hi \in Len(m)..(Len(m) + 1) :
             lo <= hi =>
                selection_to_anchor(delta, m, Rows(lo, hi))
                  = IF lo >= Len(m)
                    THEN Some([file_path |-> delta.path, line_start |-> 1,
                               line_end |-> 1])
                    ELSE selection_to_anchor(delta, m, Rows(lo, Len(m) - 1))
       /\ SelectionRange(selection)[2] >= Len(m) =>
             selection_to_anchor(delta, m, selection)
               = selection_to_anchor(delta, m,
                    Rows(Min(SelectionRange(selection)[1], Len(m)),
                         Len(m) - 1))

(* The layout shrank under the cursor: the cursor and the anchor of the    *)
(* selection point past the last row, the last row is a collapsed          *)
(* indicator, the selection still reaches a numbered row, and the          *)
(* annotation made from it carries the numbers of the in-range rows.       *)
C19_Witness ==
    /\ cursor_row >= Len(current_display_map)
    /\ selection.anchor >= Len(current_display_map)
    /\ selection.cursor < Len(current_display_map)
    /\ current_display_map[Len(current_display_map)].is_collapsed_indicator
    /\ "a.rs" \in DOMAIN annotations
    /\ Some(annotations["a.rs"][1].anchor)
         = selection_to_anchor(delta, current_display_map, selection)
    /\ annotations["a.rs"][1].anchor.line_start > 1

(* the old and new line numbers carried by the rows lo..hi of display_map  *)
NumbersOf(display_map, lo, hi) ==
    UNION { { display_map[k + 1].old_lineno[j] :
                j \in DOMAIN display_map[k + 1].old_lineno }
            \cup { display_map[k + 1].new_lineno[j] :
                     j \in DOMAIN display_map[k + 1].new_lineno } :
            k \in { r \in lo..hi : r < Len(display_map) } }

(* the anchor of a row for a comment at the cursor: its new line number,   *)
(* else its old one, and none for a row without line numbers               *)
RowAnchor(path, info) ==
    IF IsSome(info.new_lineno)
    THEN Some([file_path |-> path, line_start |-> Unwrap(info.new_lineno),
               line_end |-> Unwrap(info.new_lineno)])
    ELSE IF IsSome(info.old_lineno)
    THEN Some([file_path |-> path, line_start |-> Unwrap(info.old_lineno),
               line_end |-> Unwrap(info.old_lineno)])
    ELSE None

(* C20: an annotation made from a multi-row visual selection gets the      *)
(* range from the least to the greatest old/new line number carried by the *)
(* selected rows, rows without numbers contributing nothing, so that every *)
(* selected content row is covered; an annotation made at the cursor (the  *)
(* comment editor opened with no visual selection) is anchored to the      *)
(* cursor row's line number, new if present, else old, and no anchor is    *)
(* made for a row with no line number.  Stated on the step that opens the  *)
(* editor, for the anchor that confirming the comment will store.          *)
C20_AnchorsFromRows ==
    [][(~comment_editor_open /\ comment_editor_open') =>
         \E m \in {current_display_map} :
         \E made \in {selection_to_anchor(delta, m, selection')} :
            /\ (selection.active
                  /\ SelectionRange(selection)[1] < SelectionRange(selection)[2]
                  /\ NumbersOf(m, SelectionRange(selection)[1],
                               SelectionRange(selection)[2]) # {})
                 => /\ IsSome(made)
                    /\ \A n \in NumbersOf(m, SelectionRange(selection)[1],
                                            SelectionRange(selection)[2]) :
                          /\ Unwrap(made).line_start <= n
                          /\ n <= Unwrap(made).line_end
                    /\ Unwrap(made).line_start
                         \in NumbersOf(m, SelectionRange(selection)[1],
                                       SelectionRange(selection)[2])
                    /\ Unwrap(made).line_end
                         \in NumbersOf(m, SelectionRange(selection)[1],
                                       SelectionRange(selection)[2])
            /\ (~selection.active /\ cursor_row < Len(m))
                 => made = RowAnchor(delta.path, m[cursor_row + 1])]_vars

----------------------------------------------------------------------------
(* Session persistence: src/session.rs.  The file on disk is None when it  *)
(* cannot be read, else Some(contents); contents that do not parse as a    *)
(* SessionFile are the record Garbage.                                     *)

TargetLabel == "main"

Garbage == [garbage |-> TRUE]

(* Option::zip *)
Zip(a, b) == IF IsSome(a) /\ IsSome(b) THEN Some(<<Unwrap(a), Unwrap(b)>>) ELSE None

(* Mutant of EntryRanges: a v1 range is taken for an old-file range. *)
EntryRangesV1AsOld(version, entry) ==
    IF version = 1
    THEN <<Some(<<OrElse(entry.line_start, 1),
                  OrElse(entry.line_end, OrElse(entry.line_start, 1))>>),
           None>>
    ELSE <<Zip(entry.old_start, entry.old_end),
           Zip(entry.new_start, entry.new_end)>>

(* the (old_range, new_range) load_session computes for an entry *)
EntryRanges(version, entry) ==
    IF version = 1
    THEN <<None,
           Some(<<OrElse(entry.line_start, 1),
                  OrElse(entry.line_end, OrElse(entry.line_start, 1))>>)>>
    ELSE <<Zip(entry.old_start, entry.old_end),
           Zip(entry.new_start, entry.new_end)>>

(* for entry in session.annotations { state.add(..) } *)
RECURSIVE LoadEntries(_, _, _)
LoadEntries(state, version, entries) ==
    IF entries = <<>> THEN state
    ELSE LoadEntries(
             add(state,
                 [anchor |-> [file_path |-> Head(entries).file_path,
                              old_range |-> EntryRanges(version,
                                                        Head(entries))[1],
                              new_range |-> EntryRanges(version,
                                                        Head(entries))[2]],
                  comment |-> Head(entries).comment,
                  created_at |-> Head(entries).created_at]),
             version, Tail(entries))

(* session::load_session *)
load_session(file, target_label) ==
    IF ~IsSome(file) THEN EmptyAnnotations
    ELSE IF Unwrap(file) = Garbage THEN EmptyAnnotations
    ELSE IF ~(Unwrap(file).version = 1 \/ Unwrap(file).version = 2)
            \/ Unwrap(file).target_label # target_label
    THEN EmptyAnnotations
    ELSE LoadEntries(EmptyAnnotations, Unwrap(file).version,
                     Unwrap(file).annotations)

(* the AnnotationEntry save_session writes for an annotation *)
SavedEntry(a) ==
    [file_path |-> a.anchor.file_path,
     old_start |-> IF IsSome(a.anchor.old_range)
                   THEN Some(Unwrap(a.anchor.old_range)[1]) ELSE None,
     old_end |-> IF IsSome(a.anchor.old_range)
                 THEN Some(Unwrap(a.anchor.old_range)[2]) ELSE None,
     new_start |-> IF IsSome(a.anchor.new_range)
                   THEN Some(Unwrap(a.anchor.new_range)[1]) ELSE None,
     new_end |-> IF IsSome(a.anchor.new_range)
                 THEN Some(Unwrap(a.anchor.new_range)[2]) ELSE None,
     line_start |-> None, line_end |-> None,
     comment |-> a.comment, created_at |-> a.created_at]

(* session::save_session: always the v2 format *)
save_session(target_label, anns) ==
    Some([version |-> 2, target_label |-> target_label,
          annotations |-> [k \in 1..Len(all_sorted(anns)) |->
                             SavedEntry(all_sorted(anns)[k])]])

(* Records as the two formats hold them.  The prior format has the single  *)
(* range only; the current one has the old/new fields only.                *)
V1Entries ==
    { [file_path |-> p, old_start |-> None, old_end |-> None,
       new_start |-> None, new_end |-> None,
       line_start |-> Some(r[1]), line_end |-> Some(r[2]),
       comment |-> "c", created_at |-> 0] :
        p \in StorePaths, r \in {<<2, 3>>, <<1, 1>>} }

V2Entries ==
    { SavedEntry([anchor |-> [file_path |-> p, old_range |-> r[1],
                              new_range |-> r[2]],
                  comment |-> "c", created_at |-> 0]) :
        p \in StorePaths, r \in StoreRanges }

(* the entries in file order, stamped in that order *)
Stamped(entries) ==
    [k \in 1..Len(entries) |-> [entries[k] EXCEPT !.created_at = k]]

EntryLists(E) == UNION {[1..n -> E] : n \in 0..2}

SessionFiles ==
    { Some([version |-> 1, target_label |-> TargetLabel,
            annotations |-> Stamped(es)]) : es \in EntryLists(V1Entries) }
    \cup
    { Some([version |-> 2, target_label |-> TargetLabel,
            annotations |-> Stamped(es)]) : es \in EntryLists(V2Entries) }
    \cup
    { None, Some(Garbage),
      Some([version |-> 3, target_label |-> TargetLabel,
            annotations |-> Stamped(<<CHOOSE e \in V2Entries : TRUE>>)]),
      Some([version |-> 2, target_label |-> "dev",
            annotations |-> Stamped(<<CHOOSE e \in V2Entries : TRUE>>)]) }

(* Quit and start again: run() saves the session on quit (app.rs) and      *)
(* App::new loads it.                                                      *)
Restart ==
    /\ session_file' = save_session(TargetLabel, annotations)
    /\ annotations' = load_session(session_file', TargetLabel)
    /\ frame' = NoFrame
    /\ UNCHANGED <<delta, view_mode, display_context, gap_expansions,
                   pane_width, viewport_height, scroll_offset, cursor_row,
                   selection, comment_editor_open, text_buffer,
                   generation, loading, deltas, worker, navigator, review>>

(* App::new over a session file of either format *)
InitLoad ==
    /\ delta = MkDelta(<< <<"Context", "Deletion", "Addition">> >>, <<1>>, 0)
    /\ view_mode = "Split"
    /\ display_context = DefaultDisplayContext
    /\ gap_expansions = <<>>
    /\ pane_width = 80
    /\ viewport_height = 20
    /\ scroll_offset = 0
    /\ cursor_row = 0
    /\ session_file \in SessionFiles
    /\ annotations = load_session(session_file, TargetLabel)
    /\ frame = NoFrame
    /\ selection = NoSelection
    /\ comment_editor_open = FALSE
    /\ text_buffer = NewTextBuffer
    /\ generation = 0
    /\ loading = FALSE
    /\ deltas = <<>>
    /\ worker = NewWorker
    /\ navigator = <<>>
    /\ review = NewReview

NextLoad == DeleteAnnotation \/ Restart

SpecLoad == InitLoad /\ [][NextLoad]_vars

(* a record without any of the four old/new fields *)
LacksRanges(e) ==
    /\ e.old_start = None /\ e.old_end = None
    /\ e.new_start = None /\ e.new_end = None

(* the anchor the claim gives a record *)
UpgradedAnchor(e) ==
    IF LacksRanges(e)
    THEN [file_path |-> e.file_path, old_range |-> None,
          new_range |-> Some(<<Unwrap(e.line_start), Unwrap(e.line_end)>>)]
    ELSE [file_path |-> e.file_path,
          old_range |-> IF e.old_start = None THEN None
                        ELSE Some(<<Unwrap(e.old_start), Unwrap(e.old_end)>>),
          new_range |-> IF e.new_start = None THEN None
                        ELSE Some(<<Unwrap(e.new_start), Unwrap(e.new_end)>>)]

(* C21: loading a session file of an accepted version and the right label  *)
(* yields, per path and in file order, one annotation per record, with the *)
(* record's comment and timestamp; a record without old/new fields (the    *)
(* prior format) gets no old range and the new range (line_start,          *)
(* line_end), a record with old/new fields gets exactly those ranges.      *)
C21_LegacyUpgrade ==
    (IsSome(session_file) /\ Unwrap(session_file) # Garbage
       /\ Unwrap(session_file).version \in {1, 2}
       /\ Unwrap(session_file).target_label = TargetLabel)
    => \E es \in {Unwrap(session_file).annotations},
          st \in {load_session(session_file, TargetLabel)} :
          /\ DOMAIN st = {es[k].file_path : k \in 1..Len(es)}
          /\ \A p \in DOMAIN st :
                st[p] = [k \in 1..Len(SelectSeq(es, LAMBDA e : e.file_path = p))
                           |-> [anchor |-> UpgradedAnchor(
                                   SelectSeq(es, LAMBDA e : e.file_path = p)[k]),
                                comment |->
                                   SelectSeq(es, LAMBDA e : e.file_path = p)[k].comment,
                                created_at |->
                                   SelectSeq(es, LAMBDA e : e.file_path = p)[k].created_at]]

(* The application started over a file of the prior format with two        *)
(* records of one path: both are in the store, without an old range and    *)
(* with the record's range as the new range.                               *)
C21_Witness ==
    /\ IsSome(session_file)
    /\ Unwrap(session_file) # Garbage
    /\ Unwrap(session_file).version = 1
    /\ "a.rs" \in DOMAIN annotations
    /\ Len(annotations["a.rs"]) = 2
    /\ annotations["a.rs"][1].anchor.old_range = None
    /\ annotations["a.rs"][1].anchor.new_range = Some(<<2, 3>>)
    /\ annotations["a.rs"][2].anchor.new_range = Some(<<1, 1>>)
    /\ annotations = load_session(session_file, TargetLabel)

----------------------------------------------------------------------------
(* Visual row metrics: src/components/diff_view.rs.                        *)

(* the loop body: row_offsets.push(total_rows); row_heights.push(h);       *)
(* total_rows += h, over the heights from index k                          *)
RECURSIVE MetricsLoop(_, _, _)
MetricsLoop(heights, k, acc) ==
    IF k > Len(heights) THEN acc
    ELSE MetricsLoop(heights, k + 1,
                     [row_offsets |-> Append(acc.row_offsets, acc.total_rows),
                      row_heights |-> Append(acc.row_heights, heights[k]),
                      total_rows |-> acc.total_rows + heights[k]])

NoMetrics == [row_offsets |-> <<>>, row_heights |-> <<>>, total_rows |-> 0]

(* wrap_single_line_for_display(line, width, gutter_width, true).len() *)
WrappedHeight(line, width, gutter_width) ==
    Len(wrap_single_line_for_display(line, width, gutter_width, TRUE))

(* Mutant of compute_split_visual_row_metrics: the left pane alone sets    *)
(* the height.                                                             *)
compute_split_visual_row_metrics_left_only(d, dc, ge, anns, left_width, right_width) ==
    CHOOSE m \in
        { MetricsLoop(
              [k \in 1..Min(Len(core.left), Len(core.right)) |->
                  Max(WrappedHeight(core.left[k], left_width, GutterWidth + 1),
                      1)],
              1, NoMetrics)
          : core \in { build_split_lines_core(d, dc, ge, anns, display_map)
                       : display_map \in {build_display_map(d, "Split", dc, ge)} } }
        : TRUE

compute_split_visual_row_metrics(d, dc, ge, anns, left_width, right_width) ==
    CHOOSE m \in
        { MetricsLoop(
              [k \in 1..Min(Len(core.left), Len(core.right)) |->
                  Max(Max(WrappedHeight(core.left[k], left_width,
                                        GutterWidth + 1),
                          WrappedHeight(core.right[k], right_width,
                                        GutterWidth + 1)),
                      1)],
              1, NoMetrics)
          : core \in { build_split_lines_core(d, dc, ge, anns, display_map)
                       : display_map \in {build_display_map(d, "Split", dc, ge)} } }
        : TRUE

compute_unified_visual_row_metrics(d, dc, ge, anns, width) ==
    CHOOSE m \in
        { MetricsLoop(
              [k \in 1..Len(lines) |->
                  Max(WrappedHeight(lines[k], width, UnifiedGutterWidth), 1)],
              1, NoMetrics)
          : lines \in { build_unified_lines_core(d, dc, ge, anns, display_map)
                        : display_map \in {build_display_map(d, "Unified", dc, ge)} } }
        : TRUE

(* one offset and one height per row, heights at least 1, offsets the      *)
(* running sum of the heights, total_rows their sum                        *)
ConsistentMetrics(m, n) ==
    /\ Len(m.row_offsets) = n
    /\ Len(m.row_heights) = n
    /\ \A k \in 1..n : m.row_heights[k] >= 1
    /\ n > 0 => m.row_offsets[1] = 0
    /\ \A k \in 1..(n - 1) :
          m.row_offsets[k + 1] = m.row_offsets[k] + m.row_heights[k]
    /\ m.total_rows = SumSeq(m.row_heights)

(* C22: both metrics functions return one offset and one height per        *)
(* display row, headers included; every height is at least 1, and in Split *)
(* mode it is the larger of the wrapped heights of the row's left and      *)
(* right line; row_offsets starts at 0 and grows by the heights;           *)
(* total_rows is the sum of the heights.                                   *)
C22_RowMetrics ==
    /\ \A right_width \in {pane_width, pane_width + 1} :
       \E rows \in {build_display_map(delta, "Split", display_context,
                                      gap_expansions)} :
       \E core \in {build_split_lines_core(delta, display_context,
                                           gap_expansions, annotations, rows)},
          m \in {compute_split_visual_row_metrics(
                     delta, display_context, gap_expansions, annotations,
                     pane_width, right_width)} :
          /\ ConsistentMetrics(m, Len(rows))
          /\ \A k \in 1..Len(rows) :
                m.row_heights[k]
                  = Max(WrappedHeight(core.left[k], pane_width,
                                      SplitGutterWidth),
                        WrappedHeight(core.right[k], right_width,
                                      SplitGutterWidth))
    /\ \E rows \in {build_display_map(delta, "Unified", display_context,
                                      gap_expansions)} :
          ConsistentMetrics(
              compute_unified_visual_row_metrics(
                  delta, display_context, gap_expansions, annotations,
                  pane_width),
              Len(rows))

(* A frame was drawn in Split mode at a pane width where some paired row   *)
(* is short on the left and wraps on the right: the row is taller than 1   *)
(* and the next offset moves by its height.                                *)
C22_Witness ==
    /\ frame # NoFrame
    /\ view_mode = "Split"
    /\ \E rows \in {build_display_map(delta, "Split", display_context,
                                      gap_expansions)} :
       \E core \in {build_split_lines_core(delta, display_context,
                                           gap_expansions, annotations, rows)},
          m \in {compute_split_visual_row_metrics(
                     delta, display_context, gap_expansions, annotations,
                     pane_width, pane_width)} :
          \E k \in 1..(Len(rows) - 1) :
             /\ WrappedHeight(core.left[k], pane_width, SplitGutterWidth) = 1
             /\ m.row_heights[k] > 1
             /\ m.row_offsets[k + 1] = m.row_offsets[k] + m.row_heights[k]
             /\ m.row_offsets[k] > 0

----------------------------------------------------------------------------
(* Text buffer: src/state/text_buffer.rs.  The text is a sequence of       *)
(* bytes; byte <<c, i>> is the i-th byte of the UTF-8 encoding of c (i = 1 *)
(* is the lead byte).  The cursor is a byte offset.                        *)

(* "a" and " " are one byte, "e2" two (e-acute), "s3" three (ideographic   *)
(* space, white space), "m4" four (an emoji)                               *)
Chars == {"a", " ", "e2", "s3", "m4"}

len_utf8(c) ==
    IF c = "e2" THEN 2 ELSE IF c = "s3" THEN 3 ELSE IF c = "m4" THEN 4 ELSE 1

is_whitespace(c) == c \in {" ", "s3"}

(* the UTF-8 bytes of a character, of a string *)
Encode(c) == [i \in 1..len_utf8(c) |-> <<c, i>>]

EncodeAll(cs) == Flatten([k \in 1..Len(cs) |-> Encode(cs[k])])

(* the offsets of the lead bytes: char_indices *)
CharIndices(bytes) == {i \in 0..(Len(bytes) - 1) : bytes[i + 1][2] = 1}

(* s.chars() *)
CharsOf(bytes) ==
    [k \in 1..Cardinality(CharIndices(bytes)) |->
        bytes[(CHOOSE i \in CharIndices(bytes) :
                 Cardinality({j \in CharIndices(bytes) : j <= i}) = k) + 1][1]]

(* text[..cursor].char_indices().next_back().map(|(i, _)| i).unwrap_or(0) *)
PrevCharStart(text, cursor) ==
    IF {i \in CharIndices(text) : i < cursor} = {} THEN 0
    ELSE CHOOSE i \in CharIndices(text) :
            /\ i < cursor
            /\ \A j \in CharIndices(text) : j < cursor => j <= i

(* text.drain(from..to) *)
Drain(text, from, to) == SubSeq(text, 1, from) \o SubSeq(text, to + 1, Len(text))

(* TextBuffer::clear *)
clear(buf) == [text |-> <<>>, cursor |-> 0]

(* TextBuffer::set *)
set(buf, s) == [text |-> s, cursor |-> Len(s)]

(* Mutant of insert_char: the cursor advances by one byte. *)
insert_char_one_byte(buf, c) ==
    [text |-> SubSeq(buf.text, 1, buf.cursor) \o Encode(c)
              \o SubSeq(buf.text, buf.cursor + 1, Len(buf.text)),
     cursor |-> buf.cursor + 1]

(* TextBuffer::insert_char *)
insert_char(buf, c) ==
    [text |-> SubSeq(buf.text, 1, buf.cursor) \o Encode(c)
              \o SubSeq(buf.text, buf.cursor + 1, Len(buf.text)),
     cursor |-> buf.cursor + len_utf8(c)]

(* TextBuffer::delete_back *)
delete_back(buf) ==
    IF buf.cursor = 0 THEN buf
    ELSE [text |-> Drain(buf.text, PrevCharStart(buf.text, buf.cursor),
                         buf.cursor),
          cursor |-> PrevCharStart(buf.text, buf.cursor)]

(* str::trim_end on text[..cursor]: the length of the trimmed prefix *)
RECURSIVE TrimEnd(_, _)
TrimEnd(text, end) ==
    IF end = 0 THEN 0
    ELSE IF is_whitespace(text[PrevCharStart(text, end) + 1][1])
    THEN TrimEnd(text, PrevCharStart(text, end))
    ELSE end

(* TextBuffer::delete_word_back *)
delete_word_back(buf) ==
    IF buf.cursor = 0 THEN buf
    ELSE LET trimmed == TrimEnd(buf.text, buf.cursor)
             spaces == {i \in CharIndices(buf.text) :
                          i < trimmed /\ is_whitespace(buf.text[i + 1][1])}
             word_start ==
                 IF spaces = {} THEN 0
                 ELSE LET i == CHOOSE x \in spaces : \A y \in spaces : y <= x
                      IN  i + len_utf8(buf.text[i + 1][1])
         IN  [text |-> Drain(buf.text, word_start, buf.cursor),
              cursor |-> word_start]

(* TextBuffer::move_left *)
move_left(buf) ==
    IF buf.cursor = 0 THEN buf
    ELSE [buf EXCEPT !.cursor = PrevCharStart(buf.text, buf.cursor)]

(* TextBuffer::move_right *)
move_right(buf) ==
    IF buf.cursor >= Len(buf.text) THEN buf
    ELSE [buf EXCEPT !.cursor = @ + len_utf8(buf.text[buf.cursor + 1][1])]

(* TextBuffer::move_home *)
move_home(buf) == [buf EXCEPT !.cursor = 0]

(* TextBuffer::move_end *)
move_end(buf) == [buf EXCEPT !.cursor = Len(buf.text)]

(* everything but the text buffer *)
beside_text_buffer ==
    <<delta, view_mode, display_context, gap_expansions, pane_width,
      viewport_height, scroll_offset, cursor_row, annotations, frame,
      selection, comment_editor_open, session_file, generation, loading,
      deltas, worker, navigator, review>>

(* strings handed to set *)
SetTexts == {EncodeAll(<<>>), EncodeAll(<<"e2", " ">>), EncodeAll(<<"m4">>)}

InsertChar ==
    /\ Cardinality(CharIndices(text_buffer.text)) < MaxText
    /\ \E c \in Chars : text_buffer' = insert_char(text_buffer, c)
    /\ UNCHANGED beside_text_buffer

DeleteBack ==
    /\ text_buffer' = delete_back(text_buffer)
    /\ UNCHANGED beside_text_buffer

DeleteWordBack ==
    /\ text_buffer' = delete_word_back(text_buffer)
    /\ UNCHANGED beside_text_buffer

MoveLeft ==
    /\ text_buffer' = move_left(text_buffer)
    /\ UNCHANGED beside_text_buffer

MoveRight ==
    /\ text_buffer' = move_right(text_buffer)
    /\ UNCHANGED beside_text_buffer

MoveHome ==
    /\ text_buffer' = move_home(text_buffer)
    /\ UNCHANGED beside_text_buffer

MoveEnd ==
    /\ text_buffer' = move_end(text_buffer)
    /\ UNCHANGED beside_text_buffer

SetText ==
    /\ \E s \in SetTexts : text_buffer' = set(text_buffer, s)
    /\ UNCHANGED beside_text_buffer

ClearText ==
    /\ text_buffer' = clear(text_buffer)
    /\ UNCHANGED beside_text_buffer

InitBuffer ==
    /\ delta = MkDelta(<< <<"Context", "Deletion", "Addition">> >>, <<1>>, 0)
    /\ view_mode = "Split"
    /\ display_context = DefaultDisplayContext
    /\ gap_expansions = <<>>
    /\ pane_width = 80
    /\ viewport_height = 20
    /\ scroll_offset = 0
    /\ cursor_row = 0
    /\ annotations = EmptyAnnotations
    /\ frame = NoFrame
    /\ selection = NoSelection
    /\ comment_editor_open = FALSE
    /\ AppIdle

NextBuffer ==
    \/ InsertChar \/ DeleteBack \/ DeleteWordBack \/ MoveLeft \/ MoveRight
    \/ MoveHome \/ MoveEnd \/ SetText \/ ClearText

SpecBuffer == InitBuffer /\ [][NextBuffer]_vars

(* the text is the encoding of a character sequence *)
WellFormed(bytes) == bytes = EncodeAll(CharsOf(bytes))

(* off is 0, the length, or the offset of a lead byte *)
OnBoundary(bytes, off) ==
    /\ 0 <= off
    /\ off <= Len(bytes)
    /\ (off = Len(bytes) \/ off \in CharIndices(bytes))

(* the number of characters before a boundary offset *)
CharsBefore(bytes, off) == Cardinality({i \in CharIndices(bytes) : i < off})

(* C23: in every state reached by insert_char, delete_back,                *)
(* delete_word_back, the moves, set and clear, the cursor is a byte offset *)
(* between 0 and the text length on a character boundary; insert_char puts *)
(* the character at the cursor and moves the cursor past it; delete_back   *)
(* removes exactly the character before the cursor; delete_back and        *)
(* move_left at offset 0 and move_right at the end change nothing.         *)
C23_CursorInvariant ==
    \E t \in {text_buffer.text}, cur \in {text_buffer.cursor} :
    \E cs \in {CharsOf(t)}, k \in {CharsBefore(t, cur)} :
       /\ WellFormed(t)
       /\ OnBoundary(t, cur)
       /\ \A c \in Chars :
             /\ CharsOf(insert_char(text_buffer, c).text)
                  = SubSeq(cs, 1, k) \o <<c>> \o SubSeq(cs, k + 1, Len(cs))
             /\ WellFormed(insert_char(text_buffer, c).text)
             /\ OnBoundary(insert_char(text_buffer, c).text,
                           insert_char(text_buffer, c).cursor)
             /\ CharsBefore(insert_char(text_buffer, c).text,
                            insert_char(text_buffer, c).cursor) = k + 1
       /\ cur > 0 =>
             /\ CharsOf(delete_back(text_buffer).text)
                  = SubSeq(cs, 1, k - 1) \o SubSeq(cs, k + 1, Len(cs))
             /\ WellFormed(delete_back(text_buffer).text)
             /\ CharsBefore(delete_back(text_buffer).text,
                            delete_back(text_buffer).cursor) = k - 1
       /\ cur = 0 =>
             /\ delete_back(text_buffer) = text_buffer
             /\ move_left(text_buffer) = text_buffer
       /\ cur = Len(t) => move_right(text_buffer) = text_buffer

(* The cursor stands between a four-byte and a two-byte character, after   *)
(* a move to the left.                                                     *)
C23_Witness ==
    /\ CharsOf(text_buffer.text) = <<"a", "m4", "e2">>
    /\ text_buffer.cursor = 5
    /\ move_right(text_buffer).cursor = 7
    /\ delete_back(text_buffer).text = EncodeAll(<<"a", "e2">>)

----------------------------------------------------------------------------
(* Gap emission.                                                           *)

(* the output of filter_hunk_lines for hunk h (1-based) of the delta *)
HunkItems(h) ==
    filter_hunk_lines(delta.hunks[h].lines, display_context, gap_expansions,
                      HunkGapOffset(delta.hunks, h - 1, display_context,
                                    gap_expansions)).items

PlainItem(lines, idx) ==
    [kind |-> "Line", line |-> lines[idx + 1], hunk_line_index |-> idx]

(* out[from + 1 ..] holds lines[a..b) as plain items *)
PlainAt(out, from, lines, a, b) ==
    /\ from + (b - a) <= Len(out)
    /\ \A j \in 1..(b - a) : out[from + j] = PlainItem(lines, a + j - 1)

(* no hunk line is emitted twice *)
NoLineTwice(out) ==
    \A i, j \in 1..Len(out) :
       (/\ out[i].kind = "Line"
        /\ out[j].kind = "Line"
        /\ out[i].hunk_line_index = out[j].hunk_line_index) => i = j

(* the two-sided runs of hunk h whose baseline does not cover them, with   *)
(* show_top + show_bottom below the run length                             *)
CollapsedTwoSided(h) ==
    LET lines == delta.hunks[h].lines
        segs == HunkSegments(h, gap_expansions)
    IN  { seg \in {segs[k] : k \in 1..Len(segs)} :
            /\ seg.is_run
            /\ seg.run_start > 0
            /\ seg.run_end < Len(lines)
            /\ 2 * display_context < seg.run_end - seg.run_start
            /\ 2 * display_context + GetOr0(gap_expansions, seg.gap_id_in)
                 + GetOr0(gap_expansions, seg.gap_id_in + 1)
                 < seg.run_end - seg.run_start }

(* C24: for a context run of R lines between two changes with 2N < R and   *)
(* ids t, t+1, when show_top + show_bottom < R the filter emits, right     *)
(* after the change before the run, the first show_top lines, a Down       *)
(* indicator with id t, an Up indicator with id t+1, both hiding           *)
(* R - show_top - show_bottom lines, then the last show_bottom lines,      *)
(* followed by the change after the run; no line is emitted twice and each *)
(* line keeps its hunk index.                                              *)
C24_TwoSidedEmission ==
    \A h \in HunkRange :
    \E out \in {HunkItems(h)}, lines \in {delta.hunks[h].lines} :
       \A seg \in CollapsedTwoSided(h) :
          LET t == seg.gap_id_in
              R == seg.run_end - seg.run_start
              show_top == display_context + GetOr0(gap_expansions, t)
              show_bottom == display_context + GetOr0(gap_expansions, t + 1)
              hidden == R - show_top - show_bottom
          IN  /\ NoLineTwice(out)
              /\ \E p \in 1..Len(out) :
                    /\ out[p] = PlainItem(lines, seg.run_start - 1)
                    /\ PlainAt(out, p, lines, seg.run_start,
                               seg.run_start + show_top)
                    /\ p + show_top + 2 <= Len(out)
                    /\ out[p + show_top + 1]
                         = [kind |-> "CollapsedIndicator",
                            hidden_count |-> hidden, gap_id |-> t,
                            direction |-> "Down"]
                    /\ out[p + show_top + 2]
                         = [kind |-> "CollapsedIndicator",
                            hidden_count |-> hidden, gap_id |-> t + 1,
                            direction |-> "Up"]
                    /\ PlainAt(out, p + show_top + 2, lines,
                               seg.run_end - show_bottom, seg.run_end)
                    /\ p + show_top + show_bottom + 3 <= Len(out)
                    /\ out[p + show_top + show_bottom + 3]
                         = PlainItem(lines, seg.run_end)

(* A drawn layout whose second gap is two-sided (ids 1 and 2), with the    *)
(* top expanded and the bottom not.                                        *)
C24_Witness ==
    /\ frame # NoFrame
    /\ \E h \in HunkRange :
          \E seg \in CollapsedTwoSided(h) :
             /\ seg.gap_id_in = 1
             /\ GetOr0(gap_expansions, 1) > GetOr0(gap_expansions, 2)

(* the runs of hunk h that touch a hunk boundary and exceed their baseline *)
OneSidedRuns(h) ==
    LET lines == delta.hunks[h].lines
        segs == HunkSegments(h, gap_expansions)
    IN  { seg \in {segs[k] : k \in 1..Len(segs)} :
            /\ seg.is_run
            /\ (seg.run_start = 0 \/ seg.run_end = Len(lines))
            /\ (IF seg.run_start > 0 \/ seg.run_end < Len(lines)
                THEN display_context ELSE 0)
                 < seg.run_end - seg.run_start }

(* the indicators of out that carry id g *)
IndicatorsWith(out, g) ==
    {k \in 1..Len(out) :
        out[k].kind = "CollapsedIndicator" /\ out[k].gap_id = g}

(* The run is handled as one that opens the hunk: nothing of it is shown   *)
(* at the top, the baseline plus expansion[g] at the bottom, under one Up  *)
(* indicator.                                                              *)
EmittedAsOpening(out, lines, seg) ==
    LET g == seg.gap_id_in
        R == seg.run_end - seg.run_start
        show_bottom == (IF seg.run_end < Len(lines) THEN display_context
                        ELSE 0) + GetOr0(gap_expansions, g)
    IN  show_bottom < R =>
           /\ Cardinality(IndicatorsWith(out, g)) = 1
           /\ out[1] = [kind |-> "CollapsedIndicator",
                        hidden_count |-> R - show_bottom, gap_id |-> g,
                        direction |-> "Up"]
           /\ PlainAt(out, 1, lines, seg.run_end - show_bottom, seg.run_end)
           /\ (seg.run_end < Len(lines) =>
                 out[show_bottom + 2] = PlainItem(lines, seg.run_end))
           /\ (seg.run_end = Len(lines) => Len(out) = show_bottom + 1)

(* The run is handled as one that closes the hunk: the baseline plus       *)
(* expansion[g] shown at the top, nothing at the bottom, under one Down    *)
(* indicator.                                                              *)
EmittedAsClosing(out, lines, seg) ==
    LET g == seg.gap_id_in
        R == seg.run_end - seg.run_start
        show_top == (IF seg.run_start > 0 THEN display_context ELSE 0)
                      + GetOr0(gap_expansions, g)
    IN  show_top < R =>
           /\ Cardinality(IndicatorsWith(out, g)) = 1
           /\ Len(out) > show_top
           /\ out[Len(out)] = [kind |-> "CollapsedIndicator",
                               hidden_count |-> R - show_top, gap_id |-> g,
                               direction |-> "Down"]
           /\ PlainAt(out, Len(out) - 1 - show_top, lines, seg.run_start,
                      seg.run_start + show_top)
           /\ (seg.run_start > 0 =>
                 /\ Len(out) - 1 - show_top >= 1
                 /\ out[Len(out) - 1 - show_top]
                      = PlainItem(lines, seg.run_start - 1))
           /\ (seg.run_start = 0 => Len(out) = show_top + 1)

(* one id is allocated for the run, and a hunk of context lines only, not  *)
(* expanded, is a single indicator hiding all of them                      *)
OneIdAllocated(out, lines, seg) ==
    /\ seg.gap_id = seg.gap_id_in + 1
    /\ NoLineTwice(out)
    /\ (/\ seg.run_start = 0
        /\ seg.run_end = Len(lines)
        /\ GetOr0(gap_expansions, seg.gap_id_in) = 0) =>
          /\ Len(out) = 1
          /\ out[1].kind = "CollapsedIndicator"
          /\ out[1].hidden_count = Len(lines)

(* C25 as stated: a run that opens the hunk is emitted with an Up          *)
(* indicator and grows at the bottom, and a run that closes the hunk is    *)
(* emitted with a Down indicator and grows at the top.                     *)
C25_OneSidedEmissionAsStated ==
    \A h \in HunkRange :
    \E out \in {HunkItems(h)}, lines \in {delta.hunks[h].lines} :
       \A seg \in OneSidedRuns(h) :
          /\ OneIdAllocated(out, lines, seg)
          /\ seg.run_start = 0 => EmittedAsOpening(out, lines, seg)
          /\ seg.run_end = Len(lines) => EmittedAsClosing(out, lines, seg)

(* C25 (amended): for a context run that touches a hunk boundary and       *)
(* exceeds its baseline exactly one gap id g is allocated and, while the   *)
(* run is not fully shown, exactly one indicator is emitted.  A run that   *)
(* opens the hunk, a hunk of context lines only included, gets an Up       *)
(* indicator and expansion[g] adds lines at the bottom only; a run that    *)
(* closes the hunk after a change gets a Down indicator and expansion[g]   *)
(* adds lines at the top only; the baseline on the side without a change   *)
(* is 0.                                                                   *)
C25_OneSidedEmission ==
    \A h \in HunkRange :
    \E out \in {HunkItems(h)}, lines \in {delta.hunks[h].lines} :
       \A seg \in OneSidedRuns(h) :
          /\ OneIdAllocated(out, lines, seg)
          /\ seg.run_start = 0 => EmittedAsOpening(out, lines, seg)
          /\ (seg.run_end = Len(lines) /\ seg.run_start > 0) =>
                EmittedAsClosing(out, lines, seg)

(* A drawn layout of a hunk that opens and closes with a context run, both *)
(* partly expanded: lines shown next to the change, two indicators left.   *)
C25_Witness ==
    /\ frame # NoFrame
    /\ \E h \in HunkRange :
          \E a, b \in OneSidedRuns(h) :
             /\ a.run_start = 0
             /\ b.run_start > 0
             /\ GetOr0(gap_expansions, a.gap_id_in) > 0
             /\ GetOr0(gap_expansions, b.gap_id_in) > 0
             /\ IndicatorsWith(HunkItems(h), a.gap_id_in) # {}
             /\ IndicatorsWith(HunkItems(h), b.gap_id_in) # {}

----------------------------------------------------------------------------
(* Gap ids along the row sequence.                                         *)

IndicatorRows(m) == {i \in 1..Len(m) : m[i].is_collapsed_indicator}

(* the directions of the indicators of hunk h, by gap id *)
DirectionOf(h, g) ==
    LET out == HunkItems(h)
    IN  {out[k].direction : k \in IndicatorsWith(out, g)}

(* C26: along the row sequence of one layout pass the gap ids of the       *)
(* indicator rows increase strictly (so none is shared and numbering does  *)
(* not restart in a later hunk), two adjacent indicator rows are the Down  *)
(* and Up indicators of one two-sided gap and carry ids k and k+1, and     *)
(* header rows and content rows carry no gap id.                           *)
C26_GapIdOrder ==
    \E m \in {current_display_map} :
       /\ \A i \in 1..Len(m) :
             IsSome(m[i].gap_id) <=> m[i].is_collapsed_indicator
       /\ \A i \in IndicatorRows(m) : ~m[i].is_header
       /\ \A i, j \in IndicatorRows(m) :
             i < j => Unwrap(m[i].gap_id) < Unwrap(m[j].gap_id)
       /\ \A i \in IndicatorRows(m) :
             (i + 1) \in IndicatorRows(m) =>
                /\ m[i + 1].hunk_index = m[i].hunk_index
                /\ Unwrap(m[i + 1].gap_id) = Unwrap(m[i].gap_id) + 1
                /\ DirectionOf(m[i].hunk_index + 1, Unwrap(m[i].gap_id))
                     = {"Down"}
                /\ DirectionOf(m[i].hunk_index + 1, Unwrap(m[i + 1].gap_id))
                     = {"Up"}

(* A drawn layout of two hunks: a two-sided pair in the first, and an      *)
(* indicator in the second that continues the numbering.                   *)
C26_Witness ==
    /\ frame # NoFrame
    /\ \E m \in {current_display_map} :
          \E i, j \in IndicatorRows(m) :
             /\ (i + 1) \in IndicatorRows(m)
             /\ m[i].hunk_index = 0
             /\ m[j].hunk_index = 1
             /\ Unwrap(m[j].gap_id) >= 4

----------------------------------------------------------------------------
(* Row-index agreement of the two walks.                                   *)

(* the characters of a rendered line's gutter from column a to column b *)
GutterChars(line, a, b) == SubSeq(line[1].content, a, b)

(* the text after the gutter span(s): the last span's content *)
BodyOf(line) == line[Len(line)].content

(* the rendered line is the header of hunk h (1-based) *)
IsHeaderOf(line, h) ==
    /\ GutterChars(line, 1, GutterWidth) = <<" ", " ", ".", ".", ".">>
    /\ BodyOf(line) = delta.hunks[h].header

(* the rendered line is the indicator of the row *)
IsIndicatorOf(line, row) ==
    /\ GutterChars(line, 1, GutterWidth) = <<" ", " ", " ", " ", "~">>
    /\ \E dir \in DirectionOf(row.hunk_index + 1, Unwrap(row.gap_id)) :
          BodyOf(line) = IndicatorLabel(row.hidden_count, dir)

(* the line number printed in columns a..b is n, or blank for None *)
Shows(line, a, b, n) == GutterChars(line, a, b) = format_lineno(n, GutterWidth)

(* the hunk line a content row points at *)
RowLine(row) == delta.hunks[row.hunk_index + 1].lines[Unwrap(row.line_index) + 1]

(* index i of the row sequence and of the split line sequences denote the  *)
(* same item                                                               *)
SplitAgrees(row, left, right) ==
    IF row.is_header
    THEN IsHeaderOf(left, row.hunk_index + 1)
         /\ IsHeaderOf(right, row.hunk_index + 1)
    ELSE IF row.is_collapsed_indicator
    THEN IsIndicatorOf(left, row) /\ IsIndicatorOf(right, row)
    ELSE /\ Shows(left, 1, GutterWidth, row.old_lineno)
         /\ Shows(right, 1, GutterWidth, row.new_lineno)
         /\ IsSome(row.line_index)
         /\ RowLine(row).origin = Unwrap(row.origin)
         /\ IF Unwrap(row.origin) = "Addition"
            THEN BodyOf(right) = TrimEndNewline(RowLine(row).content)
            ELSE BodyOf(left) = TrimEndNewline(RowLine(row).content)

(* the same for the unified line sequence *)
UnifiedAgrees(row, line) ==
    IF row.is_header THEN IsHeaderOf(line, row.hunk_index + 1)
    ELSE IF row.is_collapsed_indicator THEN IsIndicatorOf(line, row)
    ELSE /\ Shows(line, 1, GutterWidth, row.old_lineno)
         /\ Shows(line, GutterWidth + 2, 2 * GutterWidth + 1, row.new_lineno)
         /\ IsSome(row.line_index)
         /\ RowLine(row).origin = Unwrap(row.origin)
         /\ BodyOf(line) = TrimEndNewline(RowLine(row).content)

(* C28: for every delta, view mode, context window and expansion map the   *)
(* row sequence of build_display_map and the line sequence(s) of the       *)
(* renderer have the same length, and index i is the same item in both: a  *)
(* header with the header of the same hunk, an indicator with the same     *)
(* indicator, a content row with the line(s) that print its old and new    *)
(* line numbers and the content of the hunk line it points at.             *)
C28_RowIndexAgreement ==
    \E m \in {current_display_map} :
       IF view_mode = "Split"
       THEN \E core \in {SplitCore} :
               /\ Len(core.left) = Len(m)
               /\ Len(core.right) = Len(m)
               /\ \A i \in 1..Len(m) :
                     SplitAgrees(m[i], core.left[i], core.right[i])
       ELSE \E core \in {UnifiedCore} :
               /\ Len(core) = Len(m)
               /\ \A i \in 1..Len(m) : UnifiedAgrees(m[i], core[i])

(* A drawn unified layout with a header, an indicator and a content row    *)
(* below them.                                                             *)
C28_Witness ==
    /\ frame # NoFrame
    /\ view_mode = "Unified"
    /\ \E m \in {current_display_map} :
          \E i, j \in 1..Len(m) :
             /\ m[i].is_collapsed_indicator
             /\ i < j
             /\ IsSome(m[j].line_index)
             /\ m[j].origin = Some("Addition")

----------------------------------------------------------------------------
(* Content of the visual rows of a split row.                              *)

(* the (character, style) pairs after the first span of every visual row *)
RowsChars(rows) ==
    Flatten([k \in 1..Len(rows) |-> FlattenChars(Tail(rows[k]))])

(* the continuation gutter: gutter_width - 1 blanks and the arrow *)
ContinuationGutter(g) == Repeat(" ", g - 1) \o <<">">>

(* C27: when wrap_single_line_for_display splits a row, the first visual   *)
(* row carries the row's gutter span and every later row the continuation  *)
(* gutter; every visual row but the last holds exactly width - gutter      *)
(* content characters and the last between 1 and width - gutter; the       *)
(* content of the visual rows in order is the row's content, character by  *)
(* character, each in its style.                                           *)
C27_WrapContent ==
    \A in \in WrapInputs :
    \E rows \in {wrap_single_line_for_display(in.line, pane_width, in.g, TRUE)} :
       Len(rows) > 1 =>
          /\ rows[1][1] = in.line[1]
          /\ \A k \in 2..Len(rows) :
                /\ rows[k][1].content = ContinuationGutter(in.g)
                /\ rows[k][1].style.fg = "text_muted"
                /\ rows[k][1].style.bg = in.line[1].style.bg
          /\ \A k \in 1..(Len(rows) - 1) :
                ContentChars(rows[k]) = pane_width - in.g
          /\ ContentChars(rows[Len(rows)]) \in 1..(pane_width - in.g)
          /\ RowsChars(rows) = FlattenChars(Tail(in.line))

(* A drawn unified frame with a row split in three or more visual rows,    *)
(* the last one shorter, whose first chunk holds characters of two styles. *)
C27_Witness ==
    /\ frame # NoFrame
    /\ view_mode = "Unified"
    /\ \E in \in WrapInputs :
       \E rows \in {wrap_single_line_for_display(in.line, pane_width, in.g,
                                                 TRUE)} :
          /\ Len(rows) >= 3
          /\ ContentChars(rows[Len(rows)]) < pane_width - in.g
          /\ Len(rows[1]) >= 3
          /\ rows[1][2].style # rows[1][3].style

----------------------------------------------------------------------------
(* Expanding every gap: a user who walks to the nearest collapsed          *)
(* indicator and activates it, again and again.                            *)

ExpandDeltas ==
    AnchorDeltas
    \cup { MkDelta(<< <<"Deletion">> \o Ctx(25) \o <<"Addition">> >>, <<1>>, 0),
           MkDelta(<< Ctx(3) \o <<"Deletion">> \o Ctx(3) \o <<"Addition">>
                        \o Ctx(2),
                      Ctx(2) \o <<"Deletion", "Addition", "Addition">>
                        \o Ctx(3) >>,
                   <<1, 40>>, 0) }

(* the rows (0-based) of the collapsed indicators of the current layout *)
IndicatorRowsNow ==
    CHOOSE r \in {{i - 1 : i \in IndicatorRows(m)} : m \in {current_display_map}} :
       TRUE

(* the cursor stands on a collapsed indicator *)
OnIndicator == cursor_row \in IndicatorRowsNow

IndicatorBelow == \E i \in IndicatorRowsNow : i > cursor_row

IndicatorAbove == \E i \in IndicatorRowsNow : i < cursor_row

(* Action::ScrollDown while an indicator lies below the cursor *)
SeekDown == ~OnIndicator /\ IndicatorBelow /\ ScrollDown

(* Action::ScrollUp while the only indicators lie above the cursor *)
SeekUp == ~OnIndicator /\ ~IndicatorBelow /\ IndicatorAbove /\ ScrollUp

(* any drawn layout of the delta, the cursor on its first or last row *)
InitExpand ==
    /\ delta \in ExpandDeltas
    /\ view_mode \in Modes
    /\ display_context \in 0..MaxCtx
    /\ gap_expansions = <<>>
    /\ pane_width = 80
    /\ viewport_height = 20
    /\ scroll_offset = 0
    /\ cursor_row \in {0, Len(current_display_map) - 1}
    /\ annotations = EmptyAnnotations
    /\ frame = NoFrame
    /\ selection = NoSelection
    /\ comment_editor_open = FALSE
    /\ AppIdle

NextExpand == SeekDown \/ SeekUp \/ ExpandContext

SpecExpand == InitExpand /\ [][NextExpand]_vars

(* hidden_count by gap id of the indicator rows of a row sequence *)
HiddenBy(m) ==
    [g \in {Unwrap(m[i].gap_id) : i \in IndicatorRows(m)} |->
        m[CHOOSE i \in IndicatorRows(m) : Unwrap(m[i].gap_id) = g].hidden_count]

(* the gap ids of the run whose indicator is at row index i (1-based): the *)
(* row's own id and that of an adjacent indicator row                      *)
RunIdsAt(m, i) ==
    {Unwrap(m[j].gap_id) : j \in {k \in {i - 1, i, i + 1} :
                                     k \in IndicatorRows(m)}}

(* the hidden counts of all indicator rows, added up *)
TotalHidden(m) == SumSeq([i \in 1..Len(m) |-> m[i].hidden_count])

(* rows between the cursor and the indicator the user walks to *)
Distance(rows, cur) ==
    IF cur \in rows \/ rows = {} THEN 0
    ELSE IF \E i \in rows : i > cur
    THEN (CHOOSE i \in rows : i > cur /\ \A j \in rows : j > cur => i <= j) - cur
    ELSE cur - (CHOOSE i \in rows : \A j \in rows : j <= i)

(* One step.  With the cursor off an indicator the expansion map stays; an *)
(* activation adds 20 to the row's gap id alone, lowers the hidden count   *)
(* of the row's run or removes its indicators, and raises no other hidden  *)
(* count.  Every step lowers the pair (hidden lines, distance to the next  *)
(* indicator) in the lexicographic order.                                  *)
ExpandStep ==
    \E m \in {current_display_map} :
    \E after \in {build_display_map(delta, view_mode, display_context,
                                     gap_expansions')} :
    \E before \in {HiddenBy(m)}, left \in {HiddenBy(after)} :
       /\ ~OnIndicator => gap_expansions' = gap_expansions
       /\ (OnIndicator /\ cursor_row' = cursor_row) =>
             \E g \in {Unwrap(m[cursor_row + 1].gap_id)} :
                /\ DOMAIN gap_expansions' = DOMAIN gap_expansions \cup {g}
                /\ gap_expansions'[g] = GetOr0(gap_expansions, g) + 20
                /\ \A k \in DOMAIN gap_expansions :
                      k # g => gap_expansions'[k] = gap_expansions[k]
                /\ DOMAIN left \subseteq DOMAIN before
                /\ \A k \in DOMAIN left :
                      IF k \in RunIdsAt(m, cursor_row + 1)
                      THEN left[k] < before[k]
                      ELSE left[k] <= before[k]
       /\ \/ TotalHidden(after) < TotalHidden(m)
          \/ /\ TotalHidden(after) = TotalHidden(m)
             /\ Distance({i - 1 : i \in IndicatorRows(after)}, cursor_row')
                  < Distance({i - 1 : i \in IndicatorRows(m)}, cursor_row)

NoCollapsedIndicators == IndicatorRowsNow = {}

(* while an indicator is left the user has a step to take: an activation   *)
(* that changes the expansion map, or a move of the cursor towards one     *)
CanProceed ==
    \/ NoCollapsedIndicators
    \/ /\ OnIndicator
       /\ \E info \in {DisplayMapGet(current_display_map, cursor_row)} :
             ExpandedGaps(gap_expansions, info) # gap_expansions
    \/ /\ ~OnIndicator
       /\ IndicatorBelow
       /\ cursor_row < SaturatingSub(Len(current_display_map), 1)
    \/ /\ ~OnIndicator
       /\ ~IndicatorBelow
       /\ IndicatorAbove
       /\ SaturatingSub(cursor_row, 1) # cursor_row

(* C29: ExpandContext on a collapsed-indicator row adds 20 to the          *)
(* expansion of that row's gap id and changes no other entry, and changes  *)
(* nothing on any other row; each activation lowers the hidden count of    *)
(* that run or removes its indicators and raises the hidden count of no    *)
(* other run.  Repeated activation ends in a layout with no collapsed      *)
(* indicators: every step of a user who walks to an indicator and          *)
(* activates it lowers a measure that cannot fall forever, and a step is   *)
(* there to take as long as an indicator is left.                          *)
C29_ExpandProgress == []CanProceed /\ [][ExpandStep]_vars

(* Every gap of a delta has been expanded away, one of them by two         *)
(* activations on the same id.                                             *)
C29_Witness ==
    /\ NoCollapsedIndicators
    /\ gap_expansions # <<>>
    /\ \E k \in DOMAIN gap_expansions : gap_expansions[k] = 40

----------------------------------------------------------------------------
(* Asynchronous diff: src/app.rs, src/async_diff/worker.rs.  A delta is    *)
(* [path, hash]: what compute_diff_hashes and the navigator read of it.    *)

DeltaLists ==
    { <<[path |-> "a.rs", hash |-> 1]>>,
      <<[path |-> "a.rs", hash |-> 2], [path |-> "b.rs", hash |-> 1]>> }

(* Result<Vec<FileDelta>, String> *)
Ok(ds) == [ok |-> TRUE, deltas |-> ds]

Err == [ok |-> FALSE, error |-> "e"]

(* what a computation may return *)
DiffOutcomes == {Ok(ds) : ds \in DeltaLists} \cup {Err}

(* compute_diff_hashes *)
compute_diff_hashes(ds) ==
    [p \in {ds[k].path : k \in 1..Len(ds)} |->
        ds[CHOOSE k \in 1..Len(ds) : ds[k].path = p].hash]

(* ReviewState::on_diff_refresh *)
on_diff_refresh(rv, new_hashes) ==
    LET first_load == DOMAIN rv.current_hashes = {}
        tracked == DOMAIN rv.files
        files ==
            IF first_load
            THEN [p \in tracked \cup DOMAIN new_hashes |->
                    IF p \in tracked THEN rv.files[p]
                    ELSE <<"Unreviewed", None>>]
            ELSE [p \in {q \in tracked \cup DOMAIN new_hashes :
                           q \in DOMAIN new_hashes} |->
                    IF p \notin DOMAIN rv.current_hashes
                    THEN <<"New", None>>
                    ELSE IF p \in tracked
                            /\ rv.files[p][1] \in {"Reviewed", "ChangedSinceReview"}
                    THEN IF rv.files[p][2] # Some(new_hashes[p])
                         THEN <<"ChangedSinceReview", rv.files[p][2]>>
                         ELSE <<"Reviewed", rv.files[p][2]>>
                    ELSE IF p \in tracked THEN rv.files[p]
                    ELSE <<"Unreviewed", None>>]
    IN  [files |-> files, current_hashes |-> new_hashes]

(* NavigatorState::update_from_deltas: the entries *)
update_from_deltas(ds) ==
    [k \in 1..Len(ds) |-> [path |-> ds[k].path, delta_index |-> k - 1]]

(* the part of the application a polled result may touch *)
DiffSide == [loading |-> loading, deltas |-> deltas, navigator |-> navigator,
             review |-> review]

ApplyOk(st, ds) ==
    [loading |-> FALSE, deltas |-> ds, navigator |-> update_from_deltas(ds),
     review |-> on_diff_refresh(st.review, compute_diff_hashes(ds))]

ApplyErr(st) ==
    [loading |-> FALSE, deltas |-> <<>>, navigator |-> update_from_deltas(<<>>),
     review |-> st.review]

(* Mutant of PollLoop: every result is applied, whatever its generation. *)
RECURSIVE PollLoopNoCheck(_, _, _)
PollLoopNoCheck(st, results, gen) ==
    IF results = <<>> THEN st
    ELSE PollLoopNoCheck(IF Head(results).deltas.ok
                         THEN ApplyOk(st, Head(results).deltas.deltas)
                         ELSE ApplyErr(st),
                         Tail(results), gen)

(* while let Some(result) = self.worker.try_recv() *)
RECURSIVE PollLoop(_, _, _)
PollLoop(st, results, gen) ==
    IF results = <<>> THEN st
    ELSE IF Head(results).generation < gen
    THEN PollLoop(st, Tail(results), gen)
    ELSE PollLoop(IF Head(results).deltas.ok
                  THEN ApplyOk(st, Head(results).deltas.deltas)
                  ELSE ApplyErr(st),
                  Tail(results), gen)

(* everything but the diff worker and what it feeds *)
beside_diff ==
    <<delta, view_mode, display_context, gap_expansions, pane_width,
      viewport_height, scroll_offset, cursor_row, annotations, frame,
      selection, comment_editor_open, session_file, text_buffer>>

(* App::request_diff *)
RequestDiff ==
    /\ generation < MaxGeneration
    /\ generation' = generation + 1
    /\ loading' = TRUE
    /\ worker' = [worker EXCEPT !.computing = @ \cup {generation'}]
    /\ UNCHANGED <<deltas, navigator, review, beside_diff>>

(* one spawn_blocking computation ends and sends its result *)
ComputationEnds ==
    /\ \E g \in worker.computing, outcome \in DiffOutcomes :
          worker' = [computing |-> worker.computing \ {g},
                     results |-> Append(worker.results,
                                        [generation |-> g, deltas |-> outcome])]
    /\ UNCHANGED <<generation, loading, deltas, navigator, review, beside_diff>>

(* App::poll_diff_results *)
PollDiffResults ==
    /\ \E st \in {PollLoop(DiffSide, worker.results, generation)} :
          /\ loading' = st.loading
          /\ deltas' = st.deltas
          /\ navigator' = st.navigator
          /\ review' = st.review
    /\ worker' = [worker EXCEPT !.results = <<>>]
    /\ UNCHANGED <<generation, beside_diff>>

(* Action::WorktreeSelect: a new worker, the count restarts, the first     *)
(* request goes out                                                        *)
WorktreeSelect ==
    /\ generation' = 1
    /\ loading' = TRUE
    /\ deltas' = <<>>
    /\ navigator' = <<>>
    /\ review' = NewReview
    /\ worker' = [NewWorker EXCEPT !.computing = {1}]
    /\ UNCHANGED beside_diff

InitDiff ==
    /\ delta = MkDelta(<< <<"Context", "Deletion", "Addition">> >>, <<1>>, 0)
    /\ view_mode = "Split"
    /\ display_context = DefaultDisplayContext
    /\ gap_expansions = <<>>
    /\ pane_width = 80
    /\ viewport_height = 20
    /\ scroll_offset = 0
    /\ cursor_row = 0
    /\ annotations = EmptyAnnotations
    /\ frame = NoFrame
    /\ selection = NoSelection
    /\ comment_editor_open = FALSE
    /\ AppIdle

NextDiff == RequestDiff \/ ComputationEnds \/ PollDiffResults \/ WorktreeSelect

SpecDiff == InitDiff /\ [][NextDiff]_vars

(* the results in the queue that are not older than the latest request *)
FreshResults == SelectSeq(worker.results, LAMBDA r : r.generation >= generation)

(* the delta list a result carries: none when the computation failed *)
DeltasOf(result) == IF result.deltas.ok THEN result.deltas.deltas ELSE <<>>

(* every request the worker w was sent before is older than gen *)
OlderThan(w, gen) ==
    /\ \A g \in w.computing : g < gen
    /\ \A k \in 1..Len(w.results) : w.results[k].generation < gen

(* a poll with only stale results in the queue leaves deltas, loading,     *)
(* navigator and review alone; a poll that meets the result of the latest  *)
(* request ends with loading off and that result's list as the delta list  *)
PollApplies ==
    PollDiffResults =>
       IF FreshResults = <<>>
       THEN UNCHANGED <<deltas, loading, navigator, review>>
       ELSE /\ Len(FreshResults) = 1
            /\ FreshResults[1].generation = generation
            /\ ~loading'
            /\ deltas' = DeltasOf(FreshResults[1])
            /\ navigator' = update_from_deltas(deltas')

(* results never run ahead of the requests, and the delta list is always   *)
(* empty or one list a computation returned, whole                         *)
WholeSnapshots ==
    /\ \A g \in worker.computing : g <= generation
    /\ \A k \in 1..Len(worker.results) :
          worker.results[k].generation <= generation
    /\ deltas \in DeltaLists \cup {<<>>}

DiffStep ==
    /\ WholeSnapshots
    /\ PollApplies
    /\ (deltas' # deltas /\ ~WorktreeSelect) => PollDiffResults

(* C30 as stated: every diff request carries a strictly increasing         *)
(* generation, and stale results are discarded.                            *)
C30_StaleResultsAsStated ==
    [][/\ DiffStep
       /\ (RequestDiff \/ WorktreeSelect) => generation' > generation]_vars

(* C30 (amended): every request sent to one worker carries a generation    *)
(* greater than that of every request sent to it before (selecting a       *)
(* worktree starts a new worker and the count again); results arrive in    *)
(* any order; a result older than the latest request is discarded with no  *)
(* effect on the delta list, the loading flag, the navigator or the review *)
(* state; the delta list is only replaced whole; once the result of the    *)
(* latest request is polled, loading is false and the delta list is that   *)
(* result's (empty when the computation failed).                           *)
C30_StaleResults ==
    [][/\ DiffStep
       /\ RequestDiff =>
             (generation' > generation /\ OlderThan(worker, generation'))
       /\ WorktreeSelect =>
             (worker'.computing = {generation'} /\ worker'.results = <<>>)]_vars

(* The result of request 3 has been polled while request 2 is still being *)
(* computed: the delta list is the one request 3 returned.                 *)
C30_Witness ==
    /\ generation = 3
    /\ ~loading
    /\ Len(deltas) = 2
    /\ worker.computing = {2}
    /\ worker.results = <<>>
    /\ review.files # <<>>

====
